---- MODULE Spec2Model ----
(***************************************************************************)
(* Model of the checkpoint-reading progress engine of dashboard_server.py: *)
(* active-run resolution (refresh_active_paths), the checkpoint readers    *)
(* (JSON files and the SQLite store), the sliding-window metrics           *)
(* (calculate_speed_metrics) and the snapshot assembly (update_status).    *)
(*                                                                         *)
(* Numbers the program keeps as floats are kept as scaled integers: a      *)
(* value rounded to one decimal is held in tenths, a value rounded to two  *)
(* decimals in hundredths.  Timestamps are whole seconds.                  *)
(***************************************************************************)
EXTENDS Integers, Sequences, FiniteSets, TLC

VARIABLES
    now,                  \* the wall clock read by time.time()
    speed_history,        \* _speed_history: sequence of [t, d] samples
    last_error_count,     \* _last_error_count
    error_rate_history,   \* _error_rate_history: sequence of [t, e] events
    speed_metrics,        \* the dict returned by the last calculate_speed_metrics
    calls,                \* number of calculate_speed_metrics calls so far
    run_state_files,      \* argument of _select_active_run_state_file
    selected,             \* its result
    select_done,          \* whether it has been called
    pointer,              \* disk: the pointer file .active_output_dir
    runs,                 \* disk: the run directories below the base directory
    last_active_scan_ts,  \* _last_active_scan_ts
    active_run_state_file,\* _active_run_state_file
    ACTIVE_OUTPUT_DIR,
    ACTIVE_CHECKPOINT_DIR,
    last_refresh,         \* what the refresh_active_paths call just made did
    disk,                 \* disk: the artifacts of the run directory HomeDir
    pc,                   \* monitor_loop: "sleep" or "polled" (update_status returned)
    polls,                \* number of update_status calls so far
    sql_faults,           \* the database reads that failed in the last poll
    progress,             \* what calculate_progress_from_tasks returned in it
    outcome,              \* whether update_status raised, and where
    status,               \* the snapshot update_status returned
    open_connections,     \* sqlite3 connections opened and not closed yet
    read_dirs,            \* the checkpoint directories the reads of the poll used
    minutes,              \* argument of format_duration, in tenths of a minute
    formatted,            \* its result ("" before the call)
    eta_args,             \* arguments of calculate_eta
    eta,                  \* its result
    pointer_resolved,     \* history: a resolution has gone through the pointer file
    pointer_streak,       \* history: resolutions through the pointer file (up to 2)
                          \* since which the pointer file has stayed valid
    main_pc,              \* the main thread: "config", "start", "serve", "serving",
                          \* "crashed"
    foreign_write         \* history: a thread other than the monitor thread wrote
                          \* the resolver's globals while monitor_loop was running

metricVars == <<speed_history, last_error_count, error_rate_history, speed_metrics, calls>>
selectVars == <<run_state_files, selected, select_done>>
fsVars == <<pointer, runs>>
resolverVars == <<last_active_scan_ts, active_run_state_file, ACTIVE_OUTPUT_DIR,
                  ACTIVE_CHECKPOINT_DIR, last_refresh>>
pollVars == <<pc, polls, sql_faults, progress, outcome, status, open_connections, read_dirs>>
etaVars == <<minutes, formatted, eta_args, eta>>
historyVars == <<pointer_resolved, pointer_streak>>
threadVars == <<main_pc, foreign_write>>
vars == <<now, metricVars, selectVars, fsVars, resolverVars, disk, pollVars, etaVars,
          historyVars, threadVars>>

----------------------------------------------------------------------------
(* Bounds of the model *)

\* at most this many samples are taken in one behaviour
MaxCalls == 3
\* the clock of the resolver specification runs this many seconds
MaxElapsed == 4
\* at most this many tasks in a task map or task table
MaxTasks == 3
\* at most this many polls in one behaviour
MaxPolls == 2
\* durations of up to this many tenths of a minute are formatted
MaxDuration == 1500
\* calculate_eta is given up to this many tasks
MaxEtaTasks == 3

----------------------------------------------------------------------------
(* Arithmetic helpers *)

Abs(x) == IF x < 0 THEN -x ELSE x

\* Python's round(): num/den (den > 0) to the nearest integer, ties to even
RoundHalfEven(num, den) ==
    LET q == num \div den
        r == num % den
    IN  IF 2 * r < den THEN q
        ELSE IF 2 * r > den THEN q + 1
        ELSE IF q % 2 = 0 THEN q ELSE q + 1

\* round(num/den, digits) held as an integer number of 1/scale, scale = 10^digits
RoundScaled(num, den, scale) == RoundHalfEven(num * scale, den)

RECURSIVE SumDeltas(_)
SumDeltas(events) ==
    IF events = <<>> THEN 0 ELSE Head(events).e + SumDeltas(Tail(events))

----------------------------------------------------------------------------
(* Paths.  A path is the sequence of its components below the base output  *)
(* directory; a component is a number standing for a name, numbers ordered *)
(* as the names are.  pathlib compares paths component by component.       *)

CHECKPOINTS == 2        \* the component "checkpoints"
RUN_STATE_JSON == 4     \* the component "run_state.json"
\* names of run directories: one sorting before "checkpoints", one after it
DirNames == {1, 3}

NoPath == <<>>          \* None, for a file
NoDir == <<0>>          \* None, for a directory
BASE_OUTPUT_DIR == <<>> \* BASE_OUTPUT_DIRS[0]

CheckpointDirOf(output_dir) == output_dir \o <<CHECKPOINTS>>
RunStateFileOf(output_dir) == output_dir \o <<CHECKPOINTS, RUN_STATE_JSON>>
\* Path.parent
Parent(path) == SubSeq(path, 1, Len(path) - 1)

\* p < q for two paths: the order of their component lists
RECURSIVE PathLess(_, _)
PathLess(p, q) ==
    IF p = <<>> THEN q # <<>>
    ELSE IF q = <<>> THEN FALSE
    ELSE IF Head(p) # Head(q) THEN Head(p) < Head(q)
    ELSE PathLess(Tail(p), Tail(q))

----------------------------------------------------------------------------
(* PathResolver: ranking of the run-state files found by the scan *)

\* A run-state file as the scan meets it:
\*   kind          "dict" (parses to an object), "corrupt" (open or parse
\*                 fails), "list" (parses to a non-empty value that is no object)
\*   shutdown_type the marker, "" when absent
\*   started_at    the start time, -1 when absent or no ISO timestamp
\*   work_mtimes   modification times of the work-indicating files present
\*                 in the checkpoint directory
\*   mtime         modification time of the run-state file itself

\* (run_state.get("shutdown_type") or "").strip().upper()
StripUpper(text) ==
    CASE text = "completed" -> "COMPLETED"
      [] text = " COMPLETED " -> "COMPLETED"
      [] OTHER -> text

\* _parse_iso_timestamp
parse_iso_timestamp(value) == IF value < 0 THEN 0 ELSE value

SetMax(S) == CHOOSE x \in S : \A y \in S : y <= x

\* _activity_timestamp_for_checkpoint: max(mtimes) if mtimes else 0.0
activity_timestamp_for_checkpoint(work_mtimes) ==
    IF work_mtimes = {} THEN 0 ELSE SetMax(work_mtimes)

\* the run_state dict the loop works on: {} when the file cannot be loaded
LoadedRunState(file) ==
    IF file.kind = "dict"
    THEN [shutdown_type |-> file.shutdown_type, started_at |-> file.started_at]
    ELSE [shutdown_type |-> "", started_at |-> -1]

\* variant: a file that cannot be loaded is skipped as well
LoopBodyRaises_Unloadable(file) == file.kind \in {"list", "corrupt"}

\* the loop body raises (caught by the outer try, the file is skipped) when
\* the loaded value has no .get
LoopBodyRaises(file) == file.kind = "list"

\* variant: run_state.json counts as a work-indicating file
CandidateKey_WithRunState(file) ==
    LET run_state == LoadedRunState(file)
    IN  [ is_active   |-> IF StripUpper(run_state.shutdown_type) # "COMPLETED" THEN 1 ELSE 0,
          activity_ts |-> activity_timestamp_for_checkpoint(file.work_mtimes \cup {file.mtime}),
          started_ts  |-> parse_iso_timestamp(run_state.started_at),
          mtime       |-> file.mtime,
          path        |-> file.path ]

CandidateKey(file) ==
    LET run_state == LoadedRunState(file)
    IN  [ is_active   |-> IF StripUpper(run_state.shutdown_type) # "COMPLETED" THEN 1 ELSE 0,
          activity_ts |-> activity_timestamp_for_checkpoint(file.work_mtimes),
          started_ts  |-> parse_iso_timestamp(run_state.started_at),
          mtime       |-> file.mtime,
          path        |-> file.path ]

\* variant: the start time is compared before the activity time
KeyGreater_StartedFirst(a, b) ==
    IF a.is_active # b.is_active THEN a.is_active > b.is_active
    ELSE IF a.started_ts # b.started_ts THEN a.started_ts > b.started_ts
    ELSE IF a.activity_ts # b.activity_ts THEN a.activity_ts > b.activity_ts
    ELSE IF a.mtime # b.mtime THEN a.mtime > b.mtime
    ELSE PathLess(b.path, a.path)

\* variant: the path is left out of the comparison
KeyGreater_NoPath(a, b) ==
    IF a.is_active # b.is_active THEN a.is_active > b.is_active
    ELSE IF a.activity_ts # b.activity_ts THEN a.activity_ts > b.activity_ts
    ELSE IF a.started_ts # b.started_ts THEN a.started_ts > b.started_ts
    ELSE a.mtime > b.mtime

\* key > best: tuples compare component by component
KeyGreater(a, b) ==
    IF a.is_active # b.is_active THEN a.is_active > b.is_active
    ELSE IF a.activity_ts # b.activity_ts THEN a.activity_ts > b.activity_ts
    ELSE IF a.started_ts # b.started_ts THEN a.started_ts > b.started_ts
    ELSE IF a.mtime # b.mtime THEN a.mtime > b.mtime
    ELSE PathLess(b.path, a.path)

NoBest == [ is_active |-> -1, activity_ts |-> 0, started_ts |-> 0, mtime |-> 0,
            path |-> NoPath ]

RECURSIVE SelectLoop(_, _)
SelectLoop(files, best) ==
    IF files = <<>> THEN best
    ELSE LET file == Head(files)
         IN  IF LoopBodyRaises(file) THEN SelectLoop(Tail(files), best)
             ELSE LET key == CandidateKey(file)
                  IN  IF best = NoBest \/ KeyGreater(key, best)
                      THEN SelectLoop(Tail(files), key)
                      ELSE SelectLoop(Tail(files), best)

\* _select_active_run_state_file: best[-1] if best else None
select_active_run_state_file(files) == SelectLoop(files, NoBest).path

----------------------------------------------------------------------------
(* PathResolver: the pointer file and refresh_active_paths *)

\* The disk.  pointer is [kind, dir]: kind "absent" (no file), "list" (not an
\* object), "nofield" (an object without active_output_dir), "malformed"
\* (does not parse), "dict" (an object naming dir).
\* runs maps each run directory to [state, file]: state "absent" (no such
\* directory), "bare" (no checkpoints subdirectory), "empty" (checkpoints
\* without run_state.json), "run" (checkpoints/run_state.json is file).

_ACTIVE_SCAN_INTERVAL_SECONDS == 2

DirExists(rns, d) == d = BASE_OUTPUT_DIR \/ (d \in DOMAIN rns /\ rns[d].state # "absent")
CheckpointsExists(rns, d) == d \in DOMAIN rns /\ rns[d].state \in {"empty", "run"}

\* the working directory of the process, which Path("") names: a run
\* directory when the process was started in one
CWD == <<3>>

\* the directory the pointer file names: data.get("active_output_dir", "")
\* raises on a value that is not an object and gives "" without the field
PointerDir(ptr) ==
    IF ptr.kind = "dict" THEN ptr.dir
    ELSE IF ptr.kind = "nofield" THEN CWD
    ELSE NoDir

\* _read_pointer_file
read_pointer_file(ptr, rns) ==
    IF /\ ptr.kind \in {"dict", "nofield"}
       /\ DirExists(rns, PointerDir(ptr))
       /\ CheckpointsExists(rns, PointerDir(ptr))
    THEN PointerDir(ptr)
    ELSE NoDir

\* the files glob finds below the base directory
GlobRunStateFiles(rns) == { rns[d].file : d \in { x \in DOMAIN rns : rns[x].state = "run" } }

\* the orders in which glob may list them
Orderings(S) ==
    { l \in [1 .. Cardinality(S) -> S] : \A i, j \in DOMAIN l : i # j => l[i] # l[j] }

\* variant: the scan is consulted first and the pointer only without a candidate
ResolveLocation_ScanFirst(rs, ptr, rns, files) ==
    LET pointer_dir == read_pointer_file(ptr, rns)
        sel == select_active_run_state_file(files)
    IN  IF sel # NoPath
        THEN [ output_dir |-> Parent(Parent(sel)), checkpoint_dir |-> Parent(sel),
               active_run_state_file |-> sel, scanned |-> TRUE ]
        ELSE IF pointer_dir # NoDir
        THEN [ output_dir |-> pointer_dir,
               checkpoint_dir |-> CheckpointDirOf(pointer_dir),
               active_run_state_file |-> RunStateFileOf(pointer_dir),
               scanned |-> TRUE ]
        ELSE [ output_dir |-> BASE_OUTPUT_DIR,
               checkpoint_dir |-> CheckpointDirOf(BASE_OUTPUT_DIR),
               active_run_state_file |-> rs.active_run_state_file,
               scanned |-> TRUE ]

\* lines 166-188: pointer first, else scan and rank, else the default
ResolveLocation(rs, ptr, rns, files) ==
    LET pointer_dir == read_pointer_file(ptr, rns)
    IN  IF pointer_dir # NoDir
        THEN [ output_dir |-> pointer_dir,
               checkpoint_dir |-> CheckpointDirOf(pointer_dir),
               active_run_state_file |-> RunStateFileOf(pointer_dir),
               scanned |-> FALSE ]
        ELSE LET sel == select_active_run_state_file(files)
             IN  IF sel = NoPath
                 THEN [ output_dir |-> Parent(CheckpointDirOf(BASE_OUTPUT_DIR)),
                        checkpoint_dir |-> CheckpointDirOf(BASE_OUTPUT_DIR),
                        active_run_state_file |-> rs.active_run_state_file,
                        scanned |-> TRUE ]
                 ELSE [ output_dir |-> Parent(Parent(sel)),
                        checkpoint_dir |-> Parent(sel),
                        active_run_state_file |-> sel,
                        scanned |-> TRUE ]

\* the resolver's globals, and what a call did
NoCall == [ called |-> FALSE, force |-> FALSE, performed |-> FALSE, scanned |-> FALSE ]

ResolverState ==
    [ last_active_scan_ts   |-> last_active_scan_ts,
      active_run_state_file |-> active_run_state_file,
      ACTIVE_OUTPUT_DIR     |-> ACTIVE_OUTPUT_DIR,
      ACTIVE_CHECKPOINT_DIR |-> ACTIVE_CHECKPOINT_DIR ]

\* variant: every call performs a resolution
refresh_active_paths_Uncached(force, rs, ptr, rns, files, t) ==
    LET loc == ResolveLocation(rs, ptr, rns, files)
    IN  [ rs |-> [ last_active_scan_ts   |-> t,
                   active_run_state_file |-> loc.active_run_state_file,
                   ACTIVE_OUTPUT_DIR     |-> loc.output_dir,
                   ACTIVE_CHECKPOINT_DIR |-> loc.checkpoint_dir ],
          call |-> [ called |-> TRUE, force |-> force, performed |-> TRUE,
                     scanned |-> loc.scanned ] ]

\* variant: the location is resolved once and kept from then on
refresh_active_paths_ResolvedOnce(force, rs, ptr, rns, files, t) ==
    IF ~force /\ rs.last_active_scan_ts # 0
    THEN [ rs |-> rs,
           call |-> [ called |-> TRUE, force |-> force, performed |-> FALSE,
                      scanned |-> FALSE ] ]
    ELSE refresh_active_paths_Uncached(force, rs, ptr, rns, files, t)

\* refresh_active_paths(force) at time t, glob listing `files`
refresh_active_paths(force, rs, ptr, rns, files, t) ==
    IF ~force /\ (t - rs.last_active_scan_ts) < _ACTIVE_SCAN_INTERVAL_SECONDS
    THEN [ rs |-> rs,
           call |-> [ called |-> TRUE, force |-> force, performed |-> FALSE,
                      scanned |-> FALSE ] ]
    ELSE LET loc == ResolveLocation(rs, ptr, rns, files)
         IN  [ rs |-> [ last_active_scan_ts   |-> t,
                        active_run_state_file |-> loc.active_run_state_file,
                        ACTIVE_OUTPUT_DIR     |-> loc.output_dir,
                        ACTIVE_CHECKPOINT_DIR |-> loc.checkpoint_dir ],
               call |-> [ called |-> TRUE, force |-> force, performed |-> TRUE,
                          scanned |-> loc.scanned ] ]

\* the call resolved the directories through the pointer file (line 165)
ViaPointer(r, ptr, rns) ==
    /\ r.call.performed
    /\ read_pointer_file(ptr, rns) # NoDir
    /\ r.rs.ACTIVE_OUTPUT_DIR = read_pointer_file(ptr, rns)

\* the streak after a call, and after the pipeline changed the disk
StreakAfterCall(streak, r, ptr, rns) ==
    IF ViaPointer(r, ptr, rns) THEN (IF streak < 2 THEN streak + 1 ELSE 2) ELSE streak
StreakAfterWrite(streak, ptr, rns) ==
    IF read_pointer_file(ptr, rns) # NoDir THEN streak ELSE 0

ACTIVE_LOGS_DIR == ACTIVE_OUTPUT_DIR \o <<5>>

\* the module's globals after import
ResolverInit ==
    /\ last_active_scan_ts = 0
    /\ active_run_state_file = NoPath
    /\ ACTIVE_OUTPUT_DIR = BASE_OUTPUT_DIR
    /\ ACTIVE_CHECKPOINT_DIR = CheckpointDirOf(BASE_OUTPUT_DIR)
    /\ last_refresh = NoCall

----------------------------------------------------------------------------
(* CheckpointReader *)

\* The artifacts of a run directory, as the record
\*   run_state      [kind, oal_workers, shutdown_type, started_at, ports, routes]
\*   tasks_state    [kind, tasks]: tasks the task map, in key order, each
\*                  task [status, route, assigned_worker, chunk_idx, dates]
\*   db             [exists, tables, rows, heartbeats]: chunk_state.db, its
\*                  chunk_tasks rows, each [state, route, worker_id, task_id,
\*                  chunk_idx, dates, updated_at], and its worker_heartbeats
\*                  rows in the order the query returns them, each
\*                  [worker_id, status, task_id] (task_id 0 for NULL)
\*   oal_state      [kind, percent, status, total_operations,
\*                   completed_operations, routes_total_per_pass]
\*   flight_booking [kind], validation [kind]
\*   logs           "none" (no log file), "ok", "unreadable"
\*   excel          modification times of the *.xlsx files of the output directory
\* A document's kind is "missing" (no file), "corrupt" (does not parse),
\* "list" (parses to a non-empty list) or "dict" (parses to an object).

HomeDir == <<1>>

MissingRunState ==
    [ kind |-> "missing", oal_workers |-> 0, shutdown_type |-> "", started_at |-> -1,
      ports |-> <<>>, routes |-> <<>> ]
MissingTasksState == [ kind |-> "missing", tasks |-> <<>> ]
MissingOalState ==
    [ kind |-> "missing", percent |-> 0, status |-> "", total_operations |-> 0,
      completed_operations |-> 0, routes_total_per_pass |-> 0 ]

\* what the readers find at a location other than HomeDir: nothing
\* chunk_state.db: absent, and as sqlite3.connect creates it when it is absent
\* (an empty file, without the chunk_tasks table)
NoDbFile == [exists |-> FALSE, rows |-> <<>>, tables |-> FALSE, heartbeats |-> <<>>]
CreatedDbFile == [exists |-> TRUE, rows |-> <<>>, tables |-> FALSE, heartbeats |-> <<>>]

MissingArtifacts ==
    [ run_state |-> MissingRunState, tasks_state |-> MissingTasksState,
      db |-> NoDbFile, oal_state |-> MissingOalState,
      flight_booking |-> [kind |-> "missing"], validation |-> [kind |-> "missing"],
      logs |-> "none", excel |-> <<>> ]

\* the directory whose checkpoints the disk record describes: the run
\* directory HomeDir, or the base directory itself when there is no run directory
DiskDir == IF HomeDir \in DOMAIN runs THEN HomeDir ELSE BASE_OUTPUT_DIR

\* the artifacts below the active directories
ArtifactsAt(checkpoint_dir, d) ==
    IF checkpoint_dir = CheckpointDirOf(DiskDir) THEN d ELSE MissingArtifacts

\* json.load succeeded: the loaders return the value, whatever its shape
Loaded(doc) == doc.kind \in {"list", "dict"}

\* the number of tasks of the map whose status is in S
CountStatus(tasks, S) == Cardinality({ i \in DOMAIN tasks : tasks[i].status \in S })
\* the count of the GROUP BY row of state st (0 without such a row)
CountState(rows, st) == Cardinality({ i \in DOMAIN rows : rows[i].state = st })

\* get_config_from_checkpoint: defaults when load_run_state returns None,
\* AttributeError when it returns a value without .get
get_config_from_checkpoint(d) ==
    IF ~Loaded(d.run_state)
    THEN [ raised |-> FALSE, ports |-> <<9222, 9223, 9224>>, oal_workers |-> 0,
           started_at |-> -1, routes |-> <<>>, run_id |-> "unknown" ]
    ELSE IF d.run_state.kind = "list"
    THEN [ raised |-> TRUE, ports |-> <<>>, oal_workers |-> 0,
           started_at |-> -1, routes |-> <<>>, run_id |-> "unknown" ]
    ELSE [ raised |-> FALSE, ports |-> d.run_state.ports,
           oal_workers |-> d.run_state.oal_workers,
           started_at |-> d.run_state.started_at,
           routes |-> d.run_state.routes, run_id |-> "run" ]

\* variant: the percent is cut to one decimal instead of rounded
ProgressPercent_Truncated(done, total) ==
    IF total > 0 THEN (done * 1000) \div total ELSE 0

\* percent = (done / total * 100) if total > 0 else 0; round(percent, 1), in tenths
ProgressPercent(done, total) ==
    IF total > 0 THEN RoundScaled(done * 100, total, 10) ELSE 0

\* _sqlite_get_task_stats: one count per state, every row counted in the total,
\* failed_exhausted folded into failed
sqlite_get_task_stats(rows) ==
    [ total   |-> Len(rows),
      pending |-> CountState(rows, "pending"),
      running |-> CountState(rows, "running"),
      done    |-> CountState(rows, "done"),
      failed  |-> CountState(rows, "failed") + CountState(rows, "failed_exhausted") ]

\* variant: the state of a row is passed on as it is stored
map_sqlite_state_to_task_status_AsStored(state) == state

\* _map_sqlite_state_to_task_status
map_sqlite_state_to_task_status(state) ==
    IF state = "running" THEN "RUNNING"
    ELSE IF state = "done" THEN "DONE"
    ELSE IF state \in {"failed", "failed_exhausted"} THEN "FAILED"
    ELSE "PENDING"

\* the rows of SELECT ... WHERE state = 'running' ORDER BY updated_at DESC
\* (distinct updated_at), each as its tasks_detail entry (lines 270-302);
\* dates_list is json.loads of the column, [] when it is NULL or does not parse
RECURSIVE RunningDetail(_, _)
RunningDetail(rows, left) ==
    IF left = {} THEN <<>>
    ELSE LET i == CHOOSE x \in left : \A y \in left : rows[y].updated_at <= rows[x].updated_at
             row == rows[i]
             dates_list == IF row.dates.text = "list" THEN row.dates.items ELSE <<>>
         IN  << [ id |-> row.task_id, route |-> row.route, chunk |-> row.chunk_idx,
                  status |-> map_sqlite_state_to_task_status(row.state),
                  worker |-> row.worker_id, dates_count |-> Len(dates_list) ] >>
             \o RunningDetail(rows, left \ {i})

\* _calculate_progress_from_sqlite
calculate_progress_from_sqlite(rows) ==
    LET stats == sqlite_get_task_stats(rows)
    IN  [ raised |-> FALSE, source |-> "sqlite",
          total |-> stats.total, done |-> stats.done, running |-> stats.running,
          pending |-> stats.pending, failed |-> stats.failed,
          percent |-> ProgressPercent(stats.done, stats.total),
          tasks_detail |-> RunningDetail(rows, { i \in DOMAIN rows :
                                                    rows[i].state = "running" }) ]

NoProgress ==
    [ raised |-> FALSE, source |-> "none", total |-> 0, done |-> 0, running |-> 0,
      pending |-> 0, failed |-> 0, percent |-> 0, tasks_detail |-> <<>> ]

\* the JSON branch of calculate_progress_from_tasks (lines 593-646)
calculate_progress_from_json(doc) ==
    IF doc.kind = "list"
    THEN [NoProgress EXCEPT !.raised = TRUE, !.source = "json"]
    ELSE LET tasks == IF Loaded(doc) THEN doc.tasks ELSE <<>>
             done == CountStatus(tasks, {"DONE"})
             running == CountStatus(tasks, {"RUNNING"})
             failed == CountStatus(tasks, {"FAILED"})
             pending == Len(tasks) - CountStatus(tasks, {"DONE", "RUNNING", "FAILED"})
         IN  IF tasks = <<>>
             THEN [NoProgress EXCEPT !.source = "json"]
             ELSE [ raised |-> FALSE, source |-> "json",
                    total |-> Len(tasks), done |-> done, running |-> running,
                    pending |-> pending, failed |-> failed,
                    percent |-> ProgressPercent(done, Len(tasks)),
                    \* sorted by id: the order of the keys
                    tasks_detail |->
                        [ i \in DOMAIN tasks |->
                            [ id |-> i, route |-> tasks[i].route,
                              chunk |-> tasks[i].chunk_idx,
                              status |-> tasks[i].status,
                              worker |-> tasks[i].assigned_worker,
                              dates_count |-> Len(tasks[i].dates) ] ] ]

\* the database reads of one poll; a read in `faults` raises (timeout, lock)
SqlReads == {"stats", "detail", "workers", "routes"}

\* _sqlite_checkpoint_available
sqlite_checkpoint_available(d) == d.db.exists

\* variant: the task map, when one is present, is preferred to the database
SqliteProgressSucceeds_JsonFirst(d, faults) ==
    /\ sqlite_checkpoint_available(d) /\ "stats" \notin faults /\ "detail" \notin faults
    /\ ~Loaded(d.tasks_state)

\* whether the try block of calculate_progress_from_tasks (lines 588-591) returns
SqliteProgressSucceeds(d, faults) ==
    sqlite_checkpoint_available(d) /\ "stats" \notin faults /\ "detail" \notin faults

\* calculate_progress_from_tasks
calculate_progress_from_tasks(d, faults) ==
    IF SqliteProgressSucceeds(d, faults)
    THEN calculate_progress_from_sqlite(d.db.rows)
    ELSE calculate_progress_from_json(d.tasks_state)

\* re.search(r"Worker_(\d+)", worker_id): the port embedded in a worker's
\* identity, 0 when there is no match
WorkerPort(worker_id) ==
    CASE worker_id = "Worker_9222" -> 9222
      [] worker_id = "node2_Worker_9222" -> 9222
      [] worker_id = "Worker_9223" -> 9223
      [] worker_id = "Worker_9555" -> 9555
      [] OTHER -> 0

IdleWorker == [ status |-> "idle", active_route |-> "None", active_task |-> 0 ]

\* variant: a worker found working is not set back to idle by a later row
WorkersFromHeartbeats_KeepWorking(workers, heartbeats, rows) ==
    [ p \in DOMAIN workers |->
        IF \E i \in DOMAIN heartbeats :
               /\ WorkerPort(heartbeats[i].worker_id) = p
               /\ heartbeats[i].status \in {"running", "RUNNING"}
               /\ heartbeats[i].task_id # 0
        THEN LET i == CHOOSE i \in DOMAIN heartbeats :
                          /\ WorkerPort(heartbeats[i].worker_id) = p
                          /\ heartbeats[i].status \in {"running", "RUNNING"}
                          /\ heartbeats[i].task_id # 0
                          /\ \A j \in DOMAIN heartbeats :
                                 ( /\ WorkerPort(heartbeats[j].worker_id) = p
                                   /\ heartbeats[j].status \in {"running", "RUNNING"}
                                   /\ heartbeats[j].task_id # 0 ) => j <= i
                 joined == { k \in DOMAIN rows : rows[k].task_id = heartbeats[i].task_id }
             IN  [ status |-> "working",
                   active_route |-> IF joined = {} THEN "None"
                                    ELSE rows[CHOOSE k \in joined : TRUE].route,
                   active_task |-> heartbeats[i].task_id ]
        ELSE IdleWorker ]

\* lines 662-687: the rows of worker_heartbeats LEFT JOIN chunk_tasks, in
\* the order fetched, each overwriting the entry of its port
RECURSIVE WorkersFromHeartbeats(_, _, _)
WorkersFromHeartbeats(workers, heartbeats, rows) ==
    IF heartbeats = <<>> THEN workers
    ELSE LET row == Head(heartbeats)
             port == WorkerPort(row.worker_id)
             joined == { k \in DOMAIN rows : rows[k].task_id = row.task_id }
             route == IF joined = {} THEN "None"
                      ELSE rows[CHOOSE k \in joined : TRUE].route
             \* (row["status"] or "").upper()
             upper == IF row.status = "running" THEN "RUNNING" ELSE row.status
         IN  IF port \notin DOMAIN workers
             THEN WorkersFromHeartbeats(workers, Tail(heartbeats), rows)
             ELSE WorkersFromHeartbeats(
                      [ workers EXCEPT ![port] =
                          IF upper = "RUNNING" /\ row.task_id # 0
                          THEN [ status |-> "working", active_route |-> route,
                                 active_task |-> row.task_id ]
                          ELSE IdleWorker ],
                      Tail(heartbeats), rows)

\* lines 701-715: the running tasks of the task map, in key order from task i
RECURSIVE WorkersFromTasks(_, _, _)
WorkersFromTasks(workers, tasks, i) ==
    IF i > Len(tasks) THEN workers
    ELSE LET port == WorkerPort(tasks[i].assigned_worker)
         IN  IF tasks[i].status = "RUNNING" /\ port \in DOMAIN workers
             THEN WorkersFromTasks(
                      [ workers EXCEPT ![port] =
                          [ status |-> "working", active_route |-> tasks[i].route,
                            active_task |-> i ] ],
                      tasks, i + 1)
             ELSE WorkersFromTasks(workers, tasks, i + 1)

\* get_worker_status_from_tasks, when it returns
get_worker_status_from_tasks(d) ==
    LET ports == get_config_from_checkpoint(d).ports
        workers == [ p \in { ports[i] : i \in DOMAIN ports } |-> IdleWorker ]
    IN  IF sqlite_checkpoint_available(d)
        THEN WorkersFromHeartbeats(workers, d.db.heartbeats, d.db.rows)
        ELSE WorkersFromTasks(workers,
                              IF d.tasks_state.kind = "dict" THEN d.tasks_state.tasks
                              ELSE <<>>, 1)

\* get_worker_status_from_tasks raises: the query is under try/finally only;
\* on the JSON branch tasks.items() needs an object
get_worker_status_raises(d, faults) ==
    \/ get_config_from_checkpoint(d).raised
    \/ IF sqlite_checkpoint_available(d) THEN "workers" \in faults
       ELSE d.tasks_state.kind = "list"

\* get_pending_routes_info raises, likewise
get_pending_routes_raises(d, faults) ==
    IF sqlite_checkpoint_available(d) THEN "routes" \in faults
    ELSE d.tasks_state.kind = "list"

\* count_excel_files: files modified at or after the run's start, none when
\* the start time is unknown
count_excel_files(d, started_at) ==
    LET run_start_timestamp == parse_iso_timestamp(started_at)
    IN  Cardinality({ i \in DOMAIN d.excel :
                          run_start_timestamp > 0 /\ d.excel[i] >= run_start_timestamp })

----------------------------------------------------------------------------
(* MetricsEngine: calculate_speed_metrics *)

SPEED_WINDOW_SECONDS == 60
ERROR_WINDOW_SECONDS == 300

\* variant: a sample exactly 60 seconds old is kept (t >= cutoff)
PruneSpeedHistory_Inclusive(history, current_time) ==
    SelectSeq(history, LAMBDA s : s.t >= current_time - SPEED_WINDOW_SECONDS)

\* _speed_history = [(t, d) for t, d in _speed_history if t > cutoff]
PruneSpeedHistory(history, current_time) ==
    SelectSeq(history, LAMBDA s : s.t > current_time - SPEED_WINDOW_SECONDS)

\* _error_rate_history = [(t, e) for t, e in _error_rate_history if t > error_cutoff]
PruneErrorHistory(history, current_time) ==
    SelectSeq(history, LAMBDA s : s.t > current_time - ERROR_WINDOW_SECONDS)

\* variant: the speed is taken against the previous sample, not the oldest one
SpeedFraction_PreviousSample(history) ==
    IF Len(history) >= 2
    THEN LET oldest == history[Len(history) - 1]
             newest == history[Len(history)]
             time_diff == newest.t - oldest.t
             tasks_diff == newest.d - oldest.d
         IN  IF time_diff > 0
             THEN [num |-> tasks_diff * 60, den |-> time_diff]
             ELSE [num |-> 0, den |-> 1]
    ELSE [num |-> 0, den |-> 1]

\* speed_per_minute before rounding, as the fraction num/den (den > 0)
SpeedFraction(history) ==
    IF Len(history) >= 2
    THEN LET oldest == history[1]
             newest == history[Len(history)]
             time_diff == newest.t - oldest.t
             tasks_diff == newest.d - oldest.d
         IN  IF time_diff > 0
             THEN [num |-> tasks_diff * 60, den |-> time_diff]
             ELSE [num |-> 0, den |-> 1]
    ELSE [num |-> 0, den |-> 1]

\* if tasks_failed != _last_error_count: append (current_time, delta)
TrackErrors(history, last_count, tasks_failed, current_time) ==
    IF tasks_failed # last_count
    THEN Append(history, [t |-> current_time, e |-> tasks_failed - last_count])
    ELSE history

\* the returned dict: speed_per_minute in hundredths, speed_per_hour in tenths,
\* error_rate in hundredths
SpeedMetricsDict(history, errors) ==
    LET speed == SpeedFraction(history)
        recent_errors == SumDeltas(errors)
    IN  [ speed_per_minute |-> RoundScaled(speed.num, speed.den, 100),
          speed_per_hour   |-> RoundScaled(speed.num * 60, speed.den, 10),
          recent_errors    |-> recent_errors,
          error_rate       |-> IF recent_errors > 0
                               THEN RoundScaled(recent_errors, 5, 100) ELSE 0,
          data_points      |-> Len(history) ]

\* variant: a done counter below the newest sample is taken for a new run,
\* whose windows and failed counter start afresh
calculate_speed_metrics_ResetOnDecrease(history, last_count, errors, tasks_done, tasks_failed, current_time) ==
    LET fresh == history # <<>> /\ tasks_done < history[Len(history)].d
        history2 == PruneSpeedHistory(
                        Append(IF fresh THEN <<>> ELSE history,
                               [t |-> current_time, d |-> tasks_done]),
                        current_time)
        errors2  == PruneErrorHistory(
                        TrackErrors(IF fresh THEN <<>> ELSE errors,
                                    IF fresh THEN 0 ELSE last_count,
                                    tasks_failed, current_time),
                        current_time)
    IN  [ speed_history      |-> history2,
          last_error_count   |-> tasks_failed,
          error_rate_history |-> errors2,
          result             |-> SpeedMetricsDict(history2, errors2) ]

\* the whole function: the new globals and the returned dict
calculate_speed_metrics(history, last_count, errors, tasks_done, tasks_failed, current_time) ==
    LET history2 == PruneSpeedHistory(
                        Append(history, [t |-> current_time, d |-> tasks_done]),
                        current_time)
        errors2  == PruneErrorHistory(
                        TrackErrors(errors, last_count, tasks_failed, current_time),
                        current_time)
    IN  [ speed_history      |-> history2,
          last_error_count   |-> tasks_failed,
          error_rate_history |-> errors2,
          result             |-> SpeedMetricsDict(history2, errors2) ]

NoMetrics ==
    [ speed_per_minute |-> 0, speed_per_hour |-> 0, recent_errors |-> 0,
      error_rate |-> 0, data_points |-> 0 ]

MetricsInit ==
    /\ speed_history = <<>>
    /\ last_error_count = 0
    /\ error_rate_history = <<>>
    /\ speed_metrics = NoMetrics
    /\ calls = 0

----------------------------------------------------------------------------
(* EtaEstimator: format_duration *)

\* variant: the minutes component is printed also when it is zero
format_duration_KeepZero(m) ==
    IF m < 10 THEN "< 1 min"
    ELSE IF m < 600 THEN ToString(m \div 10) \o " min"
    ELSE ToString(m \div 600) \o "h " \o ToString((m % 600) \div 10) \o "m"

\* format_duration(minutes), minutes in tenths: int() cuts the fraction
format_duration(m) ==
    IF m < 10 THEN "< 1 min"
    ELSE IF m < 600 THEN ToString(m \div 10) \o " min"
    ELSE LET hours == m \div 600
             mins == (m % 600) \div 10
         IN  IF mins > 0
             THEN ToString(hours) \o "h " \o ToString(mins) \o "m"
             ELSE ToString(hours) \o "h"

----------------------------------------------------------------------------
(* EtaEstimator: calculate_eta *)

\* A duration in minutes is the fraction num/den (den > 0); None is
\* [defined |-> FALSE].  The throughput speed_per_minute is in hundredths.
NoEtaValue == [ defined |-> FALSE, num |-> 0, den |-> 1 ]

\* format_duration of a fraction: only the whole tenths matter to it
FormatFraction(v) == format_duration((10 * v.num) \div v.den)

\* the dict calculate_eta starts from (lines 480-487)
NoEta ==
    [ lf_eta |-> NoEtaValue, oal_eta |-> NoEtaValue, total_eta |-> NoEtaValue,
      lf_eta_formatted |-> "N/A", oal_eta_formatted |-> "N/A",
      total_eta_formatted |-> "N/A" ]

NoEtaArgs ==
    [ total |-> 0, done |-> 0, speed_per_minute |-> 0, oal_state |-> MissingOalState,
      oal_workers |-> 0 ]

\* variant: the phases are taken to run one after the other
calculate_eta_Sum(tasks, speed, oal_state, oal_workers) ==
    IF speed <= 0 THEN NoEta
    ELSE
    LET lf_remaining_tasks == tasks.total - tasks.done
        lf_eta == IF lf_remaining_tasks > 0
                  THEN [ defined |-> TRUE, num |-> lf_remaining_tasks * 100, den |-> speed ]
                  ELSE NoEtaValue
        remaining_ops == oal_state.total_operations - oal_state.completed_operations
        oal_tracked == oal_workers > 0 /\ oal_state.kind = "dict"
        oal_eta == IF oal_tracked /\ remaining_ops > 0
                      /\ oal_state.routes_total_per_pass > 0
                   \* oal_speed = oal_workers * 1.5
                   THEN [ defined |-> TRUE, num |-> remaining_ops * 2,
                          den |-> oal_workers * 3 ]
                   ELSE NoEtaValue
        oal_eta_formatted ==
            IF oal_tracked
            THEN IF remaining_ops > 0
                 THEN IF oal_eta.defined THEN FormatFraction(oal_eta) ELSE "N/A"
                 ELSE "Done"
            ELSE IF oal_workers = 0 THEN "Disabled" ELSE "N/A"
        lf_eta_formatted == IF lf_eta.defined THEN FormatFraction(lf_eta) ELSE "Done"
        total_eta ==
            IF lf_eta.defined /\ oal_eta.defined
            THEN [ defined |-> TRUE,
                   num |-> lf_eta.num * oal_eta.den + oal_eta.num * lf_eta.den,
                   den |-> lf_eta.den * oal_eta.den ]
            ELSE IF lf_eta.defined THEN lf_eta
            ELSE oal_eta
    IN  [ lf_eta |-> lf_eta, oal_eta |-> oal_eta, total_eta |-> total_eta,
          lf_eta_formatted |-> lf_eta_formatted,
          oal_eta_formatted |-> oal_eta_formatted,
          total_eta_formatted |->
              IF total_eta.defined THEN FormatFraction(total_eta)
              ELSE IF lf_eta_formatted = "Done"
                      /\ (oal_eta_formatted = "Done" \/ oal_workers = 0)
              THEN "Done"
              ELSE "N/A" ]

\* calculate_eta(progress, tasks, speed_metrics, oal_state, oal_workers);
\* oal_state is falsy when the file could not be loaded
calculate_eta(tasks, speed, oal_state, oal_workers) ==
    IF speed <= 0 THEN NoEta
    ELSE
    LET lf_remaining_tasks == tasks.total - tasks.done
        lf_eta == IF lf_remaining_tasks > 0
                  THEN [ defined |-> TRUE, num |-> lf_remaining_tasks * 100, den |-> speed ]
                  ELSE NoEtaValue
        remaining_ops == oal_state.total_operations - oal_state.completed_operations
        oal_tracked == oal_workers > 0 /\ oal_state.kind = "dict"
        oal_eta == IF oal_tracked /\ remaining_ops > 0
                      /\ oal_state.routes_total_per_pass > 0
                   \* oal_speed = oal_workers * 1.5
                   THEN [ defined |-> TRUE, num |-> remaining_ops * 2,
                          den |-> oal_workers * 3 ]
                   ELSE NoEtaValue
        oal_eta_formatted ==
            IF oal_tracked
            THEN IF remaining_ops > 0
                 THEN IF oal_eta.defined THEN FormatFraction(oal_eta) ELSE "N/A"
                 ELSE "Done"
            ELSE IF oal_workers = 0 THEN "Disabled" ELSE "N/A"
        lf_eta_formatted == IF lf_eta.defined THEN FormatFraction(lf_eta) ELSE "Done"
        \* total_minutes = lf_eta, then max(total_minutes, oal_eta)
        total_eta ==
            IF lf_eta.defined /\ oal_eta.defined
            THEN IF lf_eta.num * oal_eta.den >= oal_eta.num * lf_eta.den
                 THEN lf_eta ELSE oal_eta
            ELSE IF lf_eta.defined THEN lf_eta
            ELSE oal_eta
    IN  [ lf_eta |-> lf_eta, oal_eta |-> oal_eta, total_eta |-> total_eta,
          lf_eta_formatted |-> lf_eta_formatted,
          oal_eta_formatted |-> oal_eta_formatted,
          total_eta_formatted |->
              IF total_eta.defined THEN FormatFraction(total_eta)
              ELSE IF lf_eta_formatted = "Done"
                      /\ (oal_eta_formatted = "Done" \/ oal_workers = 0)
              THEN "Done"
              ELSE "N/A" ]

----------------------------------------------------------------------------
(* SnapshotAssembler: update_status *)

EXPECTED_EXCEL == 4

\* run_state and run_state.get("shutdown_type") == "COMPLETED" (lines 836-837,
\* 890-891); a run-state list has no .get, but then line 822 raised before
RunCompleted(d) ==
    d.run_state.kind = "dict" /\ d.run_state.shutdown_type = "COMPLETED"

\* lines 843-885: the secondary phase's percent (whole percent) and status
OalPhase(d, oal_workers, prog) ==
    IF oal_workers > 0
    THEN IF Loaded(d.oal_state)
         THEN IF d.oal_state.kind = "list"
              THEN [ raised |-> TRUE, percent |-> 0, status |-> "unknown",
                     is_estimated |-> FALSE ]
              ELSE [ raised |-> FALSE,
                     percent |-> IF d.oal_state.status = "completed" THEN 100
                                 ELSE d.oal_state.percent,
                     status |-> d.oal_state.status, is_estimated |-> FALSE ]
         ELSE IF RunCompleted(d)
              THEN [ raised |-> FALSE, percent |-> 100, status |-> "completed",
                     is_estimated |-> TRUE ]
              ELSE IF prog.done = prog.total /\ prog.total > 0
              THEN [ raised |-> FALSE, percent |-> 0, status |-> "waiting",
                     is_estimated |-> TRUE ]
              ELSE [ raised |-> FALSE, percent |-> 0, status |-> "pending",
                     is_estimated |-> TRUE ]
    ELSE [ raised |-> FALSE, percent |-> 0, status |-> "disabled",
           is_estimated |-> FALSE ]

\* lines 893-899: excel_percent, in tenths of a percent
ExcelPercent(d, excel_count) ==
    IF RunCompleted(d) /\ excel_count > 0 THEN 1000
    ELSE LET p == RoundScaled(excel_count * 100, EXPECTED_EXCEL, 10)
         IN  IF p > 1000 THEN 1000 ELSE p

\* variant: the overall percent is always the weighted sum
PhasesComplete_Never(lf_percent, oal_workers, oal_percent) == FALSE

\* line 903: lf_percent >= 100 and (oal_workers == 0 or oal_percent >= 100);
\* lf_percent in tenths, oal_percent in whole percent
PhasesComplete(lf_percent, oal_workers, oal_percent) ==
    lf_percent >= 1000 /\ (oal_workers = 0 \/ oal_percent >= 100)

\* variant: the phases weigh the same whether or not the secondary phase runs
OverallPercent_OneBlend(lf_percent, oal_workers, oal_percent, excel_percent) ==
    IF PhasesComplete(lf_percent, oal_workers, oal_percent) THEN 1000
    ELSE RoundHalfEven(50 * lf_percent + 350 * oal_percent + 15 * excel_percent, 100)

\* lines 903-908 and round(overall, 1): the overall percent in tenths
OverallPercent(lf_percent, oal_workers, oal_percent, excel_percent) ==
    IF PhasesComplete(lf_percent, oal_workers, oal_percent) THEN 1000
    ELSE IF oal_workers > 0
    THEN RoundHalfEven(50 * lf_percent + 350 * oal_percent + 15 * excel_percent, 100)
    ELSE RoundHalfEven(85 * lf_percent + 15 * excel_percent, 100)

\* variant: a run with tasks left and none running is reported as without data
RunStatus_NoIdle(prog) ==
    IF prog.running > 0 THEN "RUNNING"
    ELSE IF prog.done = prog.total /\ prog.total > 0 THEN "COMPLETED"
    ELSE "NO_DATA"

\* lines 911-918
RunStatus(prog) ==
    IF prog.running > 0 THEN "RUNNING"
    ELSE IF prog.done = prog.total /\ prog.total > 0 THEN "COMPLETED"
    ELSE IF prog.total = 0 THEN "NO_DATA"
    ELSE "IDLE"

\* get_live_logs: the lines of the newest log file, or an error entry
get_live_logs(d) ==
    IF d.logs = "ok"
    THEN [ lines |-> <<"line">>, file |-> "run.log", total_lines |-> 1 ]
    ELSE [ lines |-> <<>>, file |-> "None",
           error |-> IF d.logs = "none" THEN "No log files found" ELSE "str(e)" ]

\* load_flight_booking_data() or {"flights": [], "updated_at": None}
FlightBookingField(d) ==
    IF Loaded(d.flight_booking) THEN d.flight_booking.kind ELSE "default"

\* load_validation_warnings() or {"passed": True, "warnings": []}
ValidationField(d) ==
    IF Loaded(d.validation) THEN d.validation.kind ELSE "default"

NoStatus ==
    [ status |-> "NONE", backend |-> "none", oal_workers |-> 0,
      progress |-> [ lf |-> 0, oal |-> 0, oal_is_estimated |-> FALSE,
                     oal_status |-> "none", excel |-> 0, overall |-> 0,
                     run_completed |-> FALSE ],
      tasks |-> [ total |-> 0, done |-> 0, running |-> 0, pending |-> 0, failed |-> 0 ],
      running_tasks |-> <<>>, workers |-> <<>>,
      excel_count |-> 0, speed_metrics |-> NoMetrics, eta |-> NoEta,
      live_logs |-> "none",
      flight_booking_data |-> "none", validation |-> "none" ]

\* the first statement of update_status that raises, "none" when it returns
RaisedAt(d, faults) ==
    LET config == get_config_from_checkpoint(d)
        prog == calculate_progress_from_tasks(d, faults)
    IN  IF config.raised THEN "config"
        ELSE IF prog.raised THEN "progress"
        ELSE IF get_worker_status_raises(d, faults) THEN "workers"
        ELSE IF get_pending_routes_raises(d, faults) THEN "routes"
        ELSE IF OalPhase(d, config.oal_workers, prog).raised THEN "oal"
        ELSE "none"

\* lines 824-1032: the dict built from the configuration, the progress
\* summary `prog` and the artifacts
StatusDictOf(d, prog, metrics) ==
    LET config == get_config_from_checkpoint(d)
        excel_count == count_excel_files(d, config.started_at)
        oal == OalPhase(d, config.oal_workers, prog)
        excel_percent == ExcelPercent(d, excel_count)
    IN  [ status |-> RunStatus(prog),
          backend |-> IF sqlite_checkpoint_available(d) THEN "sqlite" ELSE "json",
          oal_workers |-> config.oal_workers,
          progress |-> [ lf |-> prog.percent,
                         oal |-> 10 * oal.percent,
                         oal_is_estimated |-> oal.is_estimated,
                         oal_status |-> oal.status,
                         excel |-> excel_percent,
                         overall |-> OverallPercent(prog.percent, config.oal_workers,
                                                    oal.percent, excel_percent),
                         run_completed |-> RunCompleted(d) ],
          tasks |-> [ total |-> prog.total, done |-> prog.done,
                      running |-> prog.running, pending |-> prog.pending,
                      failed |-> prog.failed ],
          workers |-> get_worker_status_from_tasks(d),
          running_tasks |-> SelectSeq(prog.tasks_detail,
                                      LAMBDA t : t.status = "RUNNING"),
          excel_count |-> excel_count,
          speed_metrics |-> metrics,
          eta |-> calculate_eta([total |-> prog.total, done |-> prog.done],
                                metrics.speed_per_minute, d.oal_state,
                                config.oal_workers),
          live_logs |-> get_live_logs(d),
          flight_booking_data |-> FlightBookingField(d),
          validation |-> ValidationField(d) ]

\* the dict update_status builds from what calculate_progress_from_tasks
\* returned (line 823)
StatusDict(d, faults, metrics) ==
    StatusDictOf(d, calculate_progress_from_tasks(d, faults), metrics)

\* update_status on the artifacts d at time t: what it returns or that it
\* raised, what calculate_progress_from_tasks returned, and the metrics
\* globals afterwards (untouched when it raised before line 926)
update_status(d, faults, history, last_count, errors, t) ==
    LET at == RaisedAt(d, faults)
        prog == IF at = "config" THEN NoProgress
                ELSE calculate_progress_from_tasks(d, faults)
        m == calculate_speed_metrics(history, last_count, errors, prog.done,
                                     prog.failed, t)
    IN  IF at # "none"
        THEN [ raised |-> TRUE, at |-> at, progress |-> prog, status |-> NoStatus,
               speed_history |-> history, last_error_count |-> last_count,
               error_rate_history |-> errors, speed_metrics |-> NoMetrics ]
        ELSE [ raised |-> FALSE, at |-> at, progress |-> prog,
               status |-> StatusDict(d, faults, m.result),
               speed_history |-> m.speed_history,
               last_error_count |-> m.last_error_count,
               error_rate_history |-> m.error_rate_history,
               speed_metrics |-> m.result ]

\* the database reads update_status attempts, in order: the counts and the
\* running rows (lines 226, 266; the second only when the first returned),
\* the heartbeats (line 660) and the routes (line 727), none after the
\* statement that raised
SqlReadsOf(d, faults) ==
    LET at == RaisedAt(d, faults)
        db == sqlite_checkpoint_available(d)
    IN  (IF db /\ at # "config"
         THEN IF "stats" \in faults THEN <<"stats">> ELSE <<"stats", "detail">>
         ELSE <<>>)
        \o (IF db /\ at \notin {"config", "progress"} THEN <<"workers">> ELSE <<>>)
        \o (IF db /\ at \notin {"config", "progress", "workers"}
            THEN <<"routes">> ELSE <<>>)

\* variant: the connection is closed on the return path only
SqlRead_CloseOnReturn(open, raises) ==
    LET connected == open + 1
    IN  IF raises THEN connected ELSE connected - 1

\* one database read: conn = _sqlite_connect(...), the query under try, and
\* conn.close() in the finally clause, on return and on exception alike
SqlRead(open, raises) ==
    LET connected == open + 1
        closed == connected - 1
    IN  IF raises THEN closed ELSE closed

\* the open connections after the reads of one poll
RECURSIVE ConnectionsAfter(_, _, _)
ConnectionsAfter(open, reads, faults) ==
    IF reads = <<>> THEN open
    ELSE ConnectionsAfter(SqlRead(open, Head(reads) \in faults), Tail(reads), faults)

----------------------------------------------------------------------------
(* Specification of the metrics engine driven by arbitrary samples *)

\* seconds the clock may advance between two samples (0: the clock did not move)
ClockSteps == {0, 7, 30, 301}
\* progress counters handed to the engine
DoneValues == {0, 15, 30}
FailedValues == {0, 1}

Sample(dt, tasks_done, tasks_failed) ==
    /\ calls < MaxCalls
    /\ now' = now + dt
    /\ \E r \in { calculate_speed_metrics(speed_history, last_error_count,
                       error_rate_history, tasks_done, tasks_failed, now + dt) } :
           /\ speed_history' = r.speed_history
           /\ last_error_count' = r.last_error_count
           /\ error_rate_history' = r.error_rate_history
           /\ speed_metrics' = r.result
    /\ calls' = calls + 1
    /\ UNCHANGED <<etaVars, threadVars, historyVars, selectVars, fsVars, resolverVars, disk, pollVars>>

SelectIdle ==
    /\ run_state_files = <<>>
    /\ selected = NoPath
    /\ select_done = FALSE

\* a disk with no pointer file and no run directory
NoRunStateFile ==
    [ path |-> NoPath, kind |-> "missing", shutdown_type |-> "", started_at |-> -1,
      work_mtimes |-> {}, mtime |-> 0 ]

EmptyDisk ==
    /\ pointer = [kind |-> "absent", dir |-> NoDir]
    /\ runs = << >>
    /\ disk = MissingArtifacts

NoOutcome == [ raised |-> FALSE, at |-> "none" ]

\* the main thread is in serve_forever and has written nothing since the
\* monitor thread started
ThreadIdle ==
    /\ main_pc = "serving"
    /\ foreign_write = FALSE

\* no resolution has been performed
HistoryIdle ==
    /\ pointer_resolved = FALSE
    /\ pointer_streak = 0

\* format_duration has no argument
EtaIdle ==
    /\ minutes = 0
    /\ formatted = ""
    /\ eta_args = NoEtaArgs
    /\ eta = NoEta

\* monitor_loop has not called update_status yet
PollIdle ==
    /\ pc = "sleep"
    /\ polls = 0
    /\ sql_faults = {}
    /\ progress = NoProgress
    /\ outcome = NoOutcome
    /\ status = NoStatus
    /\ open_connections = 0
    /\ read_dirs = {}

MetricsSpecInit ==
    /\ now = 0
    /\ MetricsInit
    /\ SelectIdle
    /\ EmptyDisk
    /\ ResolverInit
    /\ PollIdle
    /\ EtaIdle
    /\ HistoryIdle
    /\ ThreadIdle

MetricsNext ==
    \E dt \in ClockSteps, d \in DoneValues, f \in FailedValues : Sample(dt, d, f)

SpecMetrics == MetricsSpecInit /\ [][MetricsNext]_vars

----------------------------------------------------------------------------
(* Specification of the ranking applied to arbitrary scan results *)

\* the run directories of the scan results
SelectDirs == { <<1>>, <<1, 1>>, <<3>> }

RunStateFiles(dirs) ==
    { [ path |-> RunStateFileOf(d), kind |-> "dict", shutdown_type |-> sh,
        started_at |-> st, work_mtimes |-> w, mtime |-> m ] :
        d \in dirs, sh \in {"", "COMPLETED"}, st \in {-1, 5},
        w \in {{}, {1, 2}}, m \in {1, 2} }
    \cup
    { [ path |-> RunStateFileOf(d), kind |-> k, shutdown_type |-> "",
        started_at |-> -1, work_mtimes |-> w, mtime |-> 1 ] :
        d \in dirs, k \in {"corrupt", "list"}, w \in {{}, {1, 2}} }
    \cup
    { [ path |-> RunStateFileOf(d), kind |-> "dict", shutdown_type |-> sh,
        started_at |-> -1, work_mtimes |-> {}, mtime |-> 1 ] :
        d \in dirs, sh \in {"completed", " COMPLETED ", "INTERRUPTED"} }

\* glob results: lists of files with pairwise distinct paths, in any order
ScanResults(dirs) ==
    LET F == RunStateFiles(dirs)
    IN  { <<>> } \cup { <<a>> : a \in F }
        \cup { l \in { <<a, b>> : a \in F, b \in F } : l[1].path # l[2].path }
        \cup { l \in { <<a, b, c>> : a \in F, b \in F, c \in F } :
                  /\ l[1].path # l[2].path
                  /\ l[1].path # l[3].path
                  /\ l[2].path # l[3].path }

SelectInit ==
    /\ now = 0
    /\ MetricsInit
    /\ EmptyDisk
    /\ ResolverInit
    /\ PollIdle
    /\ EtaIdle
    /\ HistoryIdle
    /\ ThreadIdle
    /\ run_state_files \in ScanResults(SelectDirs)
    /\ selected = NoPath
    /\ select_done = FALSE

Select ==
    /\ ~select_done
    /\ selected' = select_active_run_state_file(run_state_files)
    /\ select_done' = TRUE
    /\ UNCHANGED <<etaVars, threadVars, historyVars, now, metricVars, run_state_files, fsVars, resolverVars, disk, pollVars>>

SpecSelect == SelectInit /\ [][Select]_vars

----------------------------------------------------------------------------
(* Specification of the resolver: the pipeline writes the pointer file and *)
(* creates, advances and completes runs while refresh_active_paths is      *)
(* called, with and without force, as the clock advances.                  *)

\* time.time() when the process starts (any epoch time: far more than the TTL)
StartTime == 1000

ResolveDirs == { <<1>>, <<3>> }
\* a directory named by a pointer that does not exist
GoneDir == <<7>>

PointerValues ==
    { [kind |-> k, dir |-> NoDir] : k \in {"absent", "malformed", "list", "nofield"} }
    \cup { [kind |-> "dict", dir |-> d] : d \in ResolveDirs \cup {GoneDir} }

RunValues(d) ==
    { [state |-> st, file |-> NoRunStateFile] : st \in {"absent", "bare", "empty"} }
    \cup
    { [ state |-> "run",
        file |-> [ path |-> RunStateFileOf(d), kind |-> "dict", shutdown_type |-> sh,
                   started_at |-> -1, work_mtimes |-> w, mtime |-> 1 ] ] :
        sh \in {"", "COMPLETED"}, w \in {{}, {1, 2}} }
    \cup
    { [ state |-> "run",
        file |-> [ path |-> RunStateFileOf(d), kind |-> "corrupt", shutdown_type |-> "",
                   started_at |-> -1, work_mtimes |-> {}, mtime |-> 1 ] ] }

ResolveInit ==
    /\ now = StartTime
    /\ MetricsInit
    /\ SelectIdle
    /\ pointer = [kind |-> "absent", dir |-> NoDir]
    /\ runs = [ d \in ResolveDirs |-> [state |-> "absent", file |-> NoRunStateFile] ]
    /\ disk = MissingArtifacts
    /\ ResolverInit
    /\ PollIdle
    /\ EtaIdle
    /\ HistoryIdle
    /\ ThreadIdle

\* a call of refresh_active_paths(force)
Refresh(force, files) ==
    /\ \E r \in { refresh_active_paths(force, ResolverState, pointer, runs, files, now) } :
           /\ last_active_scan_ts' = r.rs.last_active_scan_ts
           /\ active_run_state_file' = r.rs.active_run_state_file
           /\ ACTIVE_OUTPUT_DIR' = r.rs.ACTIVE_OUTPUT_DIR
           /\ ACTIVE_CHECKPOINT_DIR' = r.rs.ACTIVE_CHECKPOINT_DIR
           /\ last_refresh' = r.call
           /\ pointer_resolved' = (pointer_resolved \/ ViaPointer(r, pointer, runs))
           /\ pointer_streak' = StreakAfterCall(pointer_streak, r, pointer, runs)
    /\ UNCHANGED <<etaVars, threadVars, now, metricVars, selectVars, fsVars, disk, pollVars>>

\* a second passes
Tick ==
    /\ now < StartTime + MaxElapsed
    /\ now' = now + 1
    /\ last_refresh' = NoCall
    /\ UNCHANGED <<etaVars, threadVars, historyVars, metricVars, selectVars, fsVars, last_active_scan_ts,
                   active_run_state_file, ACTIVE_OUTPUT_DIR, ACTIVE_CHECKPOINT_DIR,
                   disk, pollVars>>

\* the pipeline writes, rewrites or removes the pointer file
WritePointer(p) ==
    /\ p # pointer
    /\ pointer' = p
    /\ last_refresh' = NoCall
    /\ pointer_streak' = StreakAfterWrite(pointer_streak, p, runs)
    /\ UNCHANGED <<etaVars, threadVars, pointer_resolved, now, metricVars, selectVars, runs, last_active_scan_ts,
                   active_run_state_file, ACTIVE_OUTPUT_DIR, ACTIVE_CHECKPOINT_DIR,
                   disk, pollVars>>

\* the pipeline creates, advances, completes or removes a run directory
ChangeRun(d, v) ==
    /\ v # runs[d]
    /\ runs' = [runs EXCEPT ![d] = v]
    /\ last_refresh' = NoCall
    /\ pointer_streak' = StreakAfterWrite(pointer_streak, pointer, [runs EXCEPT ![d] = v])
    /\ UNCHANGED <<etaVars, threadVars, pointer_resolved, now, metricVars, selectVars, pointer, last_active_scan_ts,
                   active_run_state_file, ACTIVE_OUTPUT_DIR, ACTIVE_CHECKPOINT_DIR,
                   disk, pollVars>>

ResolveNext ==
    \/ \E force \in BOOLEAN, files \in Orderings(GlobRunStateFiles(runs)) :
           Refresh(force, files)
    \/ Tick
    \/ \E p \in PointerValues : WritePointer(p)
    \/ \E d \in ResolveDirs : \E v \in RunValues(d) : ChangeRun(d, v)

SpecResolve == ResolveInit /\ [][ResolveNext]_vars

----------------------------------------------------------------------------
(* Specification of the polling loop: monitor_loop calls update_status on  *)
(* the artifacts of a run directory named by a valid pointer file, sleeps  *)
(* two seconds and calls it again; each database read of a poll may fail.  *)

POLL_SLEEP_SECONDS == 2

SeqsUpTo(S, n) == UNION { [1 .. k -> S] : k \in 0 .. n }

\* the i-th task of a run: chunk i - 1 of its route, with i - 1 dates
DatesOf(i) == [ k \in 1 .. i - 1 |-> k ]
Task(s) ==
    [ status |-> s, route |-> "R1", assigned_worker |-> "Worker_9222",
      chunk_idx |-> 0, dates |-> <<>> ]
\* a row of chunk_tasks; the dates column holds text, here the JSON text of a list
Row(s) ==
    [ state |-> s, route |-> "R1", worker_id |-> "Worker_9222", task_id |-> 1,
      chunk_idx |-> 0, dates |-> [text |-> "list", items |-> <<>>], updated_at |-> 1 ]

TaskMap(statuses) ==
    [ kind |-> "dict",
      tasks |-> [ i \in DOMAIN statuses |->
                    [ Task(statuses[i]) EXCEPT !.chunk_idx = i - 1,
                                               !.dates = DatesOf(i) ] ] ]
TaskTable(states) ==
    [ exists |-> TRUE,
      rows |-> [ i \in DOMAIN states |->
                   [ Row(states[i]) EXCEPT !.task_id = i, !.chunk_idx = i - 1,
                                           !.dates.items = DatesOf(i),
                                           !.updated_at = i ] ],
      tables |-> TRUE, heartbeats |-> <<>> ]

RunState(oal_workers, shutdown_type) ==
    [ kind |-> "dict", oal_workers |-> oal_workers, shutdown_type |-> shutdown_type,
      started_at |-> 5, ports |-> <<9222, 9223>>, routes |-> <<"R1">> ]
OalState(percent, st) ==
    [ kind |-> "dict", percent |-> percent, status |-> st, total_operations |-> 4,
      completed_operations |-> (percent * 4) \div 100, routes_total_per_pass |-> 2 ]

\* the status strings a task map may hold; "QUEUED" stands for any other string
JsonStatuses == {"DONE", "RUNNING", "FAILED", "PENDING", "QUEUED"}
\* the state strings a task row may hold; "cancelled" stands for any other string
SqlStates == {"done", "running", "failed", "failed_exhausted", "pending", "cancelled"}

\* a run in good order on the JSON backend
BaseDisk ==
    [ run_state |-> RunState(0, ""), tasks_state |-> TaskMap(<<"DONE">>),
      db |-> NoDbFile, oal_state |-> MissingOalState,
      flight_booking |-> [kind |-> "dict"], validation |-> [kind |-> "dict"],
      logs |-> "ok", excel |-> <<>> ]

\* every task map of up to MaxTasks tasks
TaskMapDisks ==
    { [BaseDisk EXCEPT !.tasks_state = TaskMap(st)] : st \in SeqsUpTo(JsonStatuses, MaxTasks) }

\* every task table of up to MaxTasks rows, beside a task map or none
TaskTableDisks ==
    { [BaseDisk EXCEPT !.db = TaskTable(st), !.tasks_state = tm] :
        st \in SeqsUpTo(SqlStates, MaxTasks),
        tm \in {MissingTasksState, TaskMap(<<"DONE">>)} }

DocKinds == {"missing", "corrupt", "list", "dict"}

\* every combination of missing, unparseable and wrongly shaped artifacts
DamagedDisks ==
    { [BaseDisk EXCEPT
         !.run_state = IF rk = "dict" THEN RunState(w, "")
                       ELSE [MissingRunState EXCEPT !.kind = rk],
         !.tasks_state = IF tk = "dict" THEN TaskMap(<<"DONE">>)
                         ELSE [MissingTasksState EXCEPT !.kind = tk],
         !.oal_state = IF ok = "dict" THEN OalState(50, "running")
                       ELSE [MissingOalState EXCEPT !.kind = ok],
         !.flight_booking = [kind |-> fk],
         !.validation = [kind |-> vk],
         !.logs = lg] :
        rk \in DocKinds, w \in {0, 1}, tk \in DocKinds, ok \in DocKinds,
        fk \in DocKinds, vk \in DocKinds, lg \in {"none", "ok", "unreadable"} }

\* the phases of a run: primary queue, secondary phase, generated files
PhaseDisks ==
    { [BaseDisk EXCEPT
         !.run_state = RunState(w, sh),
         !.tasks_state = TaskMap(st),
         !.oal_state = oal,
         !.excel = ex] :
        w \in {0, 1, 2}, sh \in {"", "COMPLETED"},
        st \in SeqsUpTo({"DONE", "RUNNING", "PENDING", "FAILED"}, 2),
        oal \in {MissingOalState}
                 \cup { OalState(pc0, os) : pc0 \in {0, 50, 100},
                                             os \in {"running", "completed"} },
        ex \in { <<>>, <<6, 6>>, <<5, 6, 7, 8>> } }

\* the rows worker_heartbeats may hold: workers of configured ports, two
\* workers on the same port, a worker of another port, a process that is no
\* worker; running with a bound task, running without one, idle
HeartbeatRows ==
    { [ worker_id |-> w, status |-> st[1], task_id |-> st[2] ] :
        w \in {"Worker_9222", "node2_Worker_9222", "Worker_9223", "Worker_9555",
                "supervisor"},
        st \in { <<"running", 2>>, <<"idle", 0>> } }
    \cup { [ worker_id |-> "Worker_9222", status |-> "running", task_id |-> 0 ],
           [ worker_id |-> "Worker_9223", status |-> "RUNNING", task_id |-> 9 ] }

\* a task table of two running tasks with up to two heartbeat rows, of
\* different workers
HeartbeatDisks ==
    { [BaseDisk EXCEPT !.db = [ TaskTable(<<"running", "running">>)
                                  EXCEPT !.heartbeats = hb ]] :
        hb \in { h \in SeqsUpTo(HeartbeatRows, 2) :
                    Len(h) = 2 => h[1].worker_id # h[2].worker_id } }

PollDisks ==
    TaskMapDisks \cup TaskTableDisks \cup DamagedDisks \cup PhaseDisks
        \cup HeartbeatDisks

\* the run directory as the resolver sees it
RunDirView(d) ==
    IF d.run_state.kind = "missing"
    THEN [ state |-> "empty", file |-> NoRunStateFile ]
    ELSE [ state |-> "run",
           file |-> [ path |-> RunStateFileOf(HomeDir), kind |-> d.run_state.kind,
                      shutdown_type |-> d.run_state.shutdown_type,
                      started_at |-> d.run_state.started_at,
                      work_mtimes |-> {}, mtime |-> 1 ] ]

PollInit ==
    /\ now = StartTime
    /\ MetricsInit
    /\ SelectIdle
    /\ disk \in PollDisks
    /\ pointer = [kind |-> "dict", dir |-> HomeDir]
    /\ runs = [ x \in {HomeDir} |-> RunDirView(disk) ]
    /\ ResolverInit
    /\ PollIdle
    /\ EtaIdle
    /\ HistoryIdle
    /\ ThreadIdle

\* the sets of database reads that fail in one poll
FaultSets == { {} } \cup { {r} : r \in SqlReads } \cup { SqlReads }

\* one iteration of monitor_loop up to the return of update_status (or its
\* exception, which the loop catches and prints).  `vanishes`: the pipeline
\* removes the database file between the existence probe and sqlite3.connect,
\* which then creates an empty file; a file without the table fails every read.
Poll(faults, vanishes) ==
    /\ pc = "sleep"
    /\ polls < MaxPolls
    /\ faults # {} => disk.db.exists
    /\ vanishes => disk.db.exists
    /\ (vanishes \/ (disk.db.exists /\ ~disk.db.tables)) => faults = SqlReads
    /\ \E files \in Orderings(GlobRunStateFiles(runs)) :
         \E r \in { refresh_active_paths(FALSE, ResolverState, pointer, runs, files, now) } :
         \E u \in { update_status(ArtifactsAt(r.rs.ACTIVE_CHECKPOINT_DIR, disk), faults,
                                   speed_history, last_error_count, error_rate_history,
                                   now) } :
             /\ last_active_scan_ts' = r.rs.last_active_scan_ts
             /\ active_run_state_file' = r.rs.active_run_state_file
             /\ ACTIVE_OUTPUT_DIR' = r.rs.ACTIVE_OUTPUT_DIR
             /\ ACTIVE_CHECKPOINT_DIR' = r.rs.ACTIVE_CHECKPOINT_DIR
             /\ last_refresh' = r.call
             /\ pointer_resolved' = (pointer_resolved \/ ViaPointer(r, pointer, runs))
             /\ pointer_streak' = StreakAfterCall(pointer_streak, r, pointer, runs)
             /\ speed_history' = u.speed_history
             /\ last_error_count' = u.last_error_count
             /\ error_rate_history' = u.error_rate_history
             /\ speed_metrics' = IF u.raised THEN speed_metrics ELSE u.speed_metrics
             /\ calls' = IF u.raised THEN calls ELSE calls + 1
             /\ progress' = u.progress
             /\ outcome' = [ raised |-> u.raised, at |-> u.at ]
             /\ status' = u.status
             /\ open_connections' =
                    ConnectionsAfter(open_connections,
                        SqlReadsOf(ArtifactsAt(r.rs.ACTIVE_CHECKPOINT_DIR, disk), faults),
                        faults)
             /\ read_dirs' = {r.rs.ACTIVE_CHECKPOINT_DIR}
    /\ sql_faults' = faults
    /\ polls' = polls + 1
    /\ pc' = "polled"
    /\ disk' = IF vanishes THEN [disk EXCEPT !.db = CreatedDbFile] ELSE disk
    /\ UNCHANGED <<etaVars, threadVars, now, selectVars, fsVars>>

\* variant: the loop leaves at an exception instead of catching it
Sleep_UnlessRaised ==
    /\ pc = "polled"
    /\ ~outcome.raised
    /\ pc' = "sleep"
    /\ now' = now + POLL_SLEEP_SECONDS
    /\ UNCHANGED <<etaVars, threadVars, historyVars, metricVars, selectVars, fsVars, resolverVars,
                   disk, polls, sql_faults, progress, outcome, status, open_connections, read_dirs>>

\* time.sleep(2)
Sleep ==
    /\ pc = "polled"
    /\ pc' = "sleep"
    /\ now' = now + POLL_SLEEP_SECONDS
    /\ UNCHANGED <<etaVars, threadVars, historyVars, metricVars, selectVars, fsVars, resolverVars, disk, polls,
                   sql_faults, progress, outcome, status, open_connections, read_dirs>>

PollNext ==
    \/ \E faults \in FaultSets, vanishes \in BOOLEAN : Poll(faults, vanishes)
    \/ Sleep

SpecPoll == PollInit /\ [][PollNext]_vars

\* disks on which update_status returns, and on which it raises
LoopDisks ==
    { [BaseDisk EXCEPT
         !.run_state = IF rk = "dict" THEN RunState(0, "")
                       ELSE [MissingRunState EXCEPT !.kind = rk],
         !.tasks_state = IF tk = "dict" THEN TaskMap(<<"DONE">>)
                         ELSE [MissingTasksState EXCEPT !.kind = tk]] :
        rk \in DocKinds, tk \in DocKinds }
    \cup { [BaseDisk EXCEPT !.db = TaskTable(<<st>>)] : st \in SqlStates }

LoopInit ==
    /\ now = StartTime
    /\ MetricsInit
    /\ SelectIdle
    /\ disk \in LoopDisks
    /\ pointer = [kind |-> "dict", dir |-> HomeDir]
    /\ runs = [ x \in {HomeDir} |-> RunDirView(disk) ]
    /\ ResolverInit
    /\ PollIdle
    /\ EtaIdle
    /\ HistoryIdle
    /\ ThreadIdle

\* the dashboard started without a usable pointer file and without run
\* directories: the only checkpoints are those of the base directory itself
\* (line 183), absent or holding the artifacts of the disk record
DefaultInit ==
    /\ now = StartTime
    /\ MetricsInit
    /\ SelectIdle
    /\ disk \in LoopDisks \cup {MissingArtifacts}
    /\ pointer \in { p \in PointerValues : p.kind = "dict" => p.dir = GoneDir }
    /\ runs = [ x \in {BASE_OUTPUT_DIR} |->
                 IF disk = MissingArtifacts
                 THEN [ state |-> "bare", file |-> NoRunStateFile ]
                 ELSE IF disk.run_state.kind = "missing"
                 THEN RunDirView(disk)
                 ELSE [ RunDirView(disk) EXCEPT
                          !.file.path = RunStateFileOf(BASE_OUTPUT_DIR) ] ]
    /\ ResolverInit
    /\ PollIdle
    /\ EtaIdle
    /\ HistoryIdle
    /\ ThreadIdle

SpecDefault == DefaultInit /\ [][PollNext]_vars


\* the step of monitor_loop from the top of the loop to the return or the
\* exception of update_status: among the steps of PollNext, those of Poll
PollStep ==
    /\ pc = "sleep"
    /\ polls < MaxPolls
    /\ pc' = "polled"
    /\ polls' = polls + 1

\* the monitor thread keeps running: update_status returns or raises (every
\* read is bounded, the database connection by its timeout) and sleep returns
SpecPollFair ==
    /\ LoopInit
    /\ [][PollNext]_vars
    /\ WF_<<pc, polls>>(PollStep)
    /\ WF_vars(Sleep)

----------------------------------------------------------------------------
(* Properties of the metrics engine *)

Oldest(h) == h[1]
Newest(h) == h[Len(h)]

\* the smallest distance between two consecutive retained entries
MinGap(h) ==
    IF Len(h) < 2 THEN 0
    ELSE LET gaps == { h[i + 1].t - h[i].t : i \in 1 .. Len(h) - 1 }
         IN  CHOOSE g \in gaps : \A g2 \in gaps : g <= g2

\* C9 as stated: after each call speed_per_minute is exactly
\* (doneNewest - doneOldest) / (tNewest - tOldest) * 60 over the retained
\* samples, and 0 with fewer than two samples or equal timestamps.
C9_SpeedIsExactQuotient ==
    calls > 0 =>
        IF Len(speed_history) >= 2 /\ Newest(speed_history).t # Oldest(speed_history).t
        THEN speed_metrics.speed_per_minute
                 * (Newest(speed_history).t - Oldest(speed_history).t)
             = 100 * 60 * (Newest(speed_history).d - Oldest(speed_history).d)
        ELSE speed_metrics.speed_per_minute = 0

\* C9 amended: after each call speed_per_minute is that quotient rounded to two
\* decimals (a hundredth nearest to it), 0 with fewer than two retained samples
\* or equal timestamps; the samples (0,0), (30,15), (60,30) yield 30.
C9_SpeedIsRoundedQuotient ==
    calls > 0 =>
        /\ IF Len(speed_history) >= 2 /\ Newest(speed_history).t # Oldest(speed_history).t
           THEN 2 * Abs(speed_metrics.speed_per_minute
                            * (Newest(speed_history).t - Oldest(speed_history).t)
                        - 100 * 60 * (Newest(speed_history).d - Oldest(speed_history).d))
                   <= Newest(speed_history).t - Oldest(speed_history).t
           ELSE speed_metrics.speed_per_minute = 0
        /\ (now = 60 /\ calls = 3
              /\ speed_history = << [t |-> 30, d |-> 15], [t |-> 60, d |-> 30] >>)
               => speed_metrics.speed_per_minute = 30 * 100

\* the third sample of (0,0), (30,15), (60,30) has been taken: the first one
\* has left the window and the speed over the two retained ones is 30
C9_Witness ==
    /\ now = 60 /\ calls = 3
    /\ speed_history = << [t |-> 30, d |-> 15], [t |-> 60, d |-> 30] >>
    /\ speed_metrics.speed_per_minute = 3000

\* C10: with a non-decreasing clock every retained throughput sample is less
\* than 60 seconds old and every retained error event less than 300 seconds
\* old, so a history whose entries are at least g seconds apart holds at most
\* 1 + 60/g (resp. 1 + 300/g) entries, however many samples were taken.
C10_HistoriesAreTimeBounded ==
    /\ \A i \in DOMAIN speed_history :
           speed_history[i].t <= now /\ now - speed_history[i].t < 60
    /\ \A i \in DOMAIN error_rate_history :
           error_rate_history[i].t <= now /\ now - error_rate_history[i].t < 300
    /\ Len(speed_history) >= 2 =>
           (Len(speed_history) - 1) * MinGap(speed_history) < 60
    /\ Len(error_rate_history) >= 2 =>
           (Len(error_rate_history) - 1) * MinGap(error_rate_history) < 300

\* three samples were taken, a throughput sample has been pruned, and an error
\* event that was recorded has left the 300-second window
C10_Witness ==
    /\ calls = 3
    /\ Len(speed_history) = 2 /\ MinGap(speed_history) = 30
    /\ last_error_count > 0
    /\ error_rate_history = <<>>


\* C26: every event of the error history has a delta greater than 0 (an
\* event is appended only when the failed-task counter has increased).
C26_ErrorEventsArePositive ==
    \A i \in DOMAIN error_rate_history : error_rate_history[i].e > 0

----------------------------------------------------------------------------
(* Properties of the ETA estimate *)

EtaCalled == formatted = "called"
LfRemaining == eta_args.total - eta_args.done
OalRemaining ==
    eta_args.oal_state.total_operations - eta_args.oal_state.completed_operations

\* C27: the primary phase is reported "Done" whenever total - done <= 0,
\* "N/A" whenever the speed is not positive and work remains, and otherwise
\* as the formatted value of (total - done) / speed_per_minute.
C27_PrimaryEta ==
    EtaCalled =>
        /\ LfRemaining <= 0 => eta.lf_eta_formatted = "Done"
        /\ (eta_args.speed_per_minute <= 0 /\ LfRemaining > 0)
              => eta.lf_eta_formatted = "N/A"
        /\ (eta_args.speed_per_minute > 0 /\ LfRemaining > 0)
              => eta.lf_eta_formatted
                    = format_duration((LfRemaining * 1000) \div eta_args.speed_per_minute)

\* C28: with a positive worker count and a secondary-phase state in which
\* operations remain, the secondary ETA is remaining / (workers * 1.5)
\* minutes, whatever the other fields and arguments.
C28_SecondaryEta ==
    ( /\ EtaCalled
      /\ eta_args.oal_workers > 0
      /\ eta_args.oal_state.kind = "dict"
      /\ OalRemaining > 0 )
    => /\ eta.oal_eta.defined
       /\ eta.oal_eta.num * 3 * eta_args.oal_workers
             = 2 * OalRemaining * eta.oal_eta.den

\* C29: the overall ETA is the greater of the primary and the secondary ETA
\* when the secondary phase is enabled and both are defined, is the primary
\* ETA (value and text) when the worker count is 0, and reads "Done" only
\* if the primary phase reads "Done" and the secondary phase is disabled or
\* reads "Done".
C29_OverallEta ==
    EtaCalled =>
        LET lf == eta.lf_eta
            oal == eta.oal_eta
            tot == eta.total_eta
            Same(a, b) == a.num * b.den = b.num * a.den
            AtLeast(a, b) == a.num * b.den >= b.num * a.den
        IN  /\ (eta_args.oal_workers > 0 /\ lf.defined /\ oal.defined)
                  => /\ tot.defined
                     /\ AtLeast(tot, lf) /\ AtLeast(tot, oal)
                     /\ Same(tot, lf) \/ Same(tot, oal)
            /\ eta_args.oal_workers = 0
                  => /\ tot = lf
                     /\ eta.total_eta_formatted = eta.lf_eta_formatted
            /\ eta.total_eta_formatted = "Done"
                  => /\ eta.lf_eta_formatted = "Done"
                     /\ \/ eta_args.oal_workers = 0
                        \/ eta.oal_eta_formatted = "Done"

\* two tasks left at one task a minute, 399 operations left for one worker:
\* the overall ETA is the secondary one, 266 minutes
C29_Witness ==
    /\ EtaCalled
    /\ eta_args.oal_workers = 1
    /\ eta.lf_eta_formatted = "2 min"
    /\ eta.oal_eta_formatted = "4h 26m"
    /\ eta.total_eta = eta.oal_eta
    /\ eta.total_eta_formatted = "4h 26m"

\* C30: with a worker count of 0 the secondary phase is reported
\* "Disabled", whatever the throughput.
C30_DisabledSecondaryPhase ==
    (EtaCalled /\ eta_args.oal_workers = 0) => eta.oal_eta_formatted = "Disabled"

----------------------------------------------------------------------------
(* Properties of the ranking *)

Reverse(seq) == [ i \in 1 .. Len(seq) |-> seq[Len(seq) + 1 - i] ]

\* the first four components of the ranking key, read off the file
SameRank(f, g) ==
    /\ CandidateKey(f).is_active = CandidateKey(g).is_active
    /\ CandidateKey(f).activity_ts = CandidateKey(g).activity_ts
    /\ CandidateKey(f).started_ts = CandidateKey(g).started_ts
    /\ f.mtime = g.mtime

Ranked(files) == { i \in DOMAIN files : files[i].kind # "list" }

\* C8: the selection does not depend on the order of the list (the reversed
\* list and the list with its first two entries exchanged select the same
\* file), and of two candidates with identical (isActive, lastActivityTime,
\* startedAt, mtime) the one with the smaller path is not selected.
C8_SelectionIsDeterministic ==
    select_done =>
        /\ selected = select_active_run_state_file(Reverse(run_state_files))
        /\ Len(run_state_files) >= 2 =>
               selected = select_active_run_state_file(
                              <<run_state_files[2], run_state_files[1]>>
                              \o SubSeq(run_state_files, 3, Len(run_state_files)))
        /\ \A i \in Ranked(run_state_files), j \in Ranked(run_state_files) :
               (SameRank(run_state_files[i], run_state_files[j])
                   /\ PathLess(run_state_files[i].path, run_state_files[j].path))
               => selected # run_state_files[i].path

\* the list holds two candidates of identical rank, the one with the greater
\* path comes first in the list, and it is the one selected
C8_Witness ==
    /\ select_done
    /\ Len(run_state_files) = 2
    /\ SameRank(run_state_files[1], run_state_files[2])
    /\ Ranked(run_state_files) = {1, 2}
    /\ PathLess(run_state_files[2].path, run_state_files[1].path)
    /\ selected = run_state_files[1].path

\* the scan results with every file that cannot be read or parsed replaced
\* by a file holding the empty object
AsEmptyObject(files) ==
    [ i \in DOMAIN files |->
        IF files[i].kind = "corrupt"
        THEN [ files[i] EXCEPT !.kind = "dict", !.shutdown_type = "",
                               !.started_at = -1 ]
        ELSE files[i] ]

\* C19 as stated: the run of a run-state file that cannot be read or parsed
\* is never the selected candidate.
C19_UnparseableNeverSelected ==
    select_done =>
        \A i \in DOMAIN run_state_files :
            run_state_files[i].kind = "corrupt"
                => selected # run_state_files[i].path

\* C19 amended: a run-state file that cannot be read or parsed is ranked as
\* if it held the empty object (an active run with no start time): the
\* selection is the one made when each such file is replaced by a file
\* holding {}, and such a file that is alone in the scan is selected.
C19_UnparseableRankedAsEmptyObject ==
    select_done =>
        /\ selected = select_active_run_state_file(AsEmptyObject(run_state_files))
        /\ (Len(run_state_files) = 1 /\ run_state_files[1].kind = "corrupt")
               => selected = run_state_files[1].path

\* an unparseable file is selected ahead of a completed run
C19_Witness ==
    /\ select_done
    /\ Len(run_state_files) = 2
    /\ run_state_files[1].kind = "corrupt"
    /\ run_state_files[2].kind = "dict"
    /\ run_state_files[2].shutdown_type = "COMPLETED"
    /\ selected = run_state_files[1].path

\* the composite key of f is at least that of g, component by component
KeyAtLeast(f, g) ==
    LET a == CandidateKey(f)
        b == CandidateKey(g)
        A == <<a.is_active, a.activity_ts, a.started_ts, a.mtime>>
        B == <<b.is_active, b.activity_ts, b.started_ts, b.mtime>>
    IN  \/ \E k \in 1 .. 4 : A[k] > B[k] /\ \A l \in 1 .. k - 1 : A[l] = B[l]
        \/ A = B /\ (a.path = b.path \/ PathLess(b.path, a.path))

\* C23: the selected file is the candidate whose key (isActive,
\* lastActivityTime, startedAt, mtime, path) is the lexicographic maximum,
\* and no file is selected only when there is no candidate; so a completed
\* run is not selected beside a run that is not completed, and of two
\* equally active runs the one with the earlier lastActivityTime is not
\* selected, whatever the other components.
C23_SelectsMaximumKey ==
    select_done =>
        LET files == run_state_files
            C == Ranked(files)
        IN  /\ C = {} => selected = NoPath
            /\ C # {} =>
                  \E i \in C : /\ selected = files[i].path
                                /\ \A j \in C : KeyAtLeast(files[i], files[j])
            /\ \A i \in C, j \in C :
                  CandidateKey(files[i]).is_active > CandidateKey(files[j]).is_active
                      => selected # files[j].path
            /\ \A i \in C, j \in C :
                  ( /\ CandidateKey(files[i]).is_active = CandidateKey(files[j]).is_active
                    /\ CandidateKey(files[i]).activity_ts
                           > CandidateKey(files[j]).activity_ts )
                      => selected # files[j].path

\* an active run without any work file is selected beside a completed run
\* that has later activity, a later start and the greater path, and beside
\* an equally active run is passed over for its earlier activity
C23_Witness ==
    /\ select_done
    /\ Len(run_state_files) = 3
    /\ run_state_files[1].shutdown_type = "COMPLETED"
    /\ run_state_files[1].work_mtimes = {1, 2}
    /\ run_state_files[1].started_at = 5
    /\ run_state_files[2].kind = "dict"
    /\ run_state_files[2].shutdown_type = ""
    /\ run_state_files[2].work_mtimes = {}
    /\ run_state_files[2].started_at = 5
    /\ run_state_files[3].kind = "dict"
    /\ run_state_files[3].shutdown_type = ""
    /\ run_state_files[3].work_mtimes = {1, 2}
    /\ run_state_files[3].started_at = -1
    /\ PathLess(run_state_files[3].path, run_state_files[1].path)
    /\ selected = run_state_files[3].path

\* C24: the isActive component of a candidate's key is 0 exactly when the
\* shutdown-type marker of its run state is the string "COMPLETED", and 1 for
\* every other marker and without one.
C24_InactiveExactlyWhenCompleted ==
    select_done =>
        \A i \in Ranked(run_state_files) :
            CandidateKey(run_state_files[i]).is_active
                = IF LoadedRunState(run_state_files[i]).shutdown_type = "COMPLETED"
                  THEN 0 ELSE 1

\* modification times run_state.json may be given, the last one later than
\* that of every work-indicating file
TouchTimes == {0, 1, 2, 9}

\* C25: the lastActivityTime of a candidate is the latest modification time
\* of the work-indicating files present in its checkpoint directory, 0 when
\* there is none; and whatever modification time run_state.json is given,
\* a candidate is not selected beside a candidate of the same isActive with
\* a strictly later lastActivityTime.
C25_ActivityIgnoresRunStateFile ==
    select_done =>
        LET files == run_state_files
            act(i) == CandidateKey(files[i]).activity_ts
        IN  /\ \A i \in Ranked(files) :
                  IF files[i].work_mtimes = {} THEN act(i) = 0
                  ELSE /\ act(i) \in files[i].work_mtimes
                       /\ \A m \in files[i].work_mtimes : m <= act(i)
            /\ \A i \in Ranked(files), j \in Ranked(files), m \in TouchTimes :
                  ( /\ CandidateKey(files[i]).is_active = CandidateKey(files[j]).is_active
                    /\ act(j) > act(i) )
                  => select_active_run_state_file(
                         [files EXCEPT ![i].mtime = m]) # files[i].path

\* of two active runs the one whose run_state.json was written last, but
\* which has no work-indicating file, is passed over
C25_Witness ==
    /\ select_done
    /\ Len(run_state_files) = 2
    /\ run_state_files[1].kind = "dict"
    /\ run_state_files[2].kind = "dict"
    /\ run_state_files[1].shutdown_type = ""
    /\ run_state_files[2].shutdown_type = ""
    /\ run_state_files[1].work_mtimes = {}
    /\ run_state_files[1].mtime = 2
    /\ run_state_files[2].work_mtimes = {1, 2}
    /\ run_state_files[2].mtime = 1
    /\ selected = run_state_files[2].path

----------------------------------------------------------------------------
(* Properties of the resolver *)

\* the pointer file exists, parses, and names an existing directory that has
\* a checkpoints subdirectory
ValidPointer ==
    /\ pointer.kind = "dict"
    /\ pointer.dir \in DOMAIN runs
    /\ runs[pointer.dir].state \in {"empty", "run"}

\* C3: a resolution performed while a valid pointer is present scans nothing
\* and resolves the output directory to the directory the pointer names,
\* whatever run directories exist.
C3_ValidPointerMeansNoScan ==
    (last_refresh.performed /\ ValidPointer) =>
        /\ ~last_refresh.scanned
        /\ ACTIVE_OUTPUT_DIR = pointer.dir
        /\ ACTIVE_CHECKPOINT_DIR = CheckpointDirOf(pointer.dir)

\* a resolution was performed with a valid pointer while another directory
\* holds an active run with work activity, the pointed one holding none
C3_Witness ==
    /\ last_refresh.performed
    /\ ValidPointer
    /\ pointer.dir = <<1>>
    /\ runs[<<1>>].state = "empty"
    /\ runs[<<3>>].state = "run"
    /\ runs[<<3>>].file.shutdown_type = ""
    /\ runs[<<3>>].file.work_mtimes # {}
    /\ ACTIVE_OUTPUT_DIR = <<1>>


MalformedPointer ==
    \/ pointer.kind \in {"malformed", "list", "nofield"}
    \/ pointer.kind = "dict" /\ ~ValidPointer

\* C18: a resolution performed with a malformed pointer file treats the
\* pointer as absent and proceeds to the scan.
C18_MalformedPointerMeansScan ==
    (last_refresh.performed /\ MalformedPointer) => last_refresh.scanned

\* C21: a call of refresh_active_paths without force made less than 2
\* seconds after the last performed resolution performs none (it reads
\* neither the pointer file nor the run directories) and leaves the active
\* directories, the active run-state file and the cache timestamp as they
\* were; a call with force performs a resolution and sets the cache
\* timestamp to the time of the call.
C21_RefreshIsCached ==
    [][ last_refresh'.called =>
          /\ ( /\ ~last_refresh'.force
               /\ now - last_active_scan_ts < _ACTIVE_SCAN_INTERVAL_SECONDS )
             => /\ ~last_refresh'.performed
                /\ UNCHANGED <<last_active_scan_ts, active_run_state_file,
                               ACTIVE_OUTPUT_DIR, ACTIVE_CHECKPOINT_DIR>>
          /\ last_refresh'.force
             => /\ last_refresh'.performed
                /\ last_active_scan_ts' = now ]_vars

\* a call without force inside the TTL has left the directory of an earlier
\* resolution in place although the pointer file now names another one
C21_Witness ==
    /\ last_refresh.called
    /\ ~last_refresh.force
    /\ ~last_refresh.performed
    /\ now - last_active_scan_ts = 1
    /\ ValidPointer
    /\ pointer.dir = <<3>>
    /\ ACTIVE_OUTPUT_DIR = <<1>>

----------------------------------------------------------------------------
(* Properties of the polling loop *)

\* update_status has returned or raised at least once
Polled == polls > 0

\* the progress summary of the last poll was computed
Summarised == Polled /\ progress.source # "none" /\ ~progress.raised

\* C1: in every progress summary, from the task map or from the task table
\* whatever the state strings of its rows, done, running, pending and failed
\* add up to the total.
C1_CountsSumToTotal ==
    Summarised =>
        progress.done + progress.running + progress.pending + progress.failed
            = progress.total

\* C2: the percent of a progress summary is done / total * 100 rounded to the
\* nearest tenth (at most half a tenth away from the quotient), and 0 when
\* the total is 0.
C2_PercentIsRoundedRatio ==
    Summarised =>
        IF progress.total > 0
        THEN 2 * Abs(progress.percent * progress.total - 1000 * progress.done)
                 <= progress.total
        ELSE progress.percent = 0

\* two of three tasks done: 66.666... is reported as 66.7
C2_Witness ==
    /\ Summarised
    /\ progress.total = 3
    /\ progress.done = 2
    /\ progress.percent = 667

\* the artifacts other than the database are present and well formed
ArtifactsIntact ==
    /\ disk.run_state.kind = "dict"
    /\ disk.tasks_state.kind \in {"missing", "dict"}
    /\ disk.oal_state.kind \in {"missing", "dict"}

\* C4: a poll in which any database read fails (task counts, running-task
\* detail, worker status, per-route breakdown) still returns a snapshot: no
\* exception leaves update_status.
C4_SqlErrorNeverPropagates ==
    (Polled /\ sql_faults # {} /\ ArtifactsIntact) => ~outcome.raised

\* C5: a poll whose database reads for the progress succeed computes the
\* progress from the database, also when the poll before it fell back to the
\* task map.
C5_FallbackIsPerPoll ==
    (Polled /\ disk.db.exists /\ sql_faults \cap {"stats", "detail"} = {}
            /\ outcome.at # "config") =>
        /\ progress.source = "sqlite"
        /\ progress.total = Len(disk.db.rows)
        /\ progress.done = CountState(disk.db.rows, "done")

\* the first poll fell back to the task map (its sample holds the map's one
\* done task, the table holding none), the second read the table
C5_Witness ==
    /\ polls = 2
    /\ disk.db.exists
    /\ disk.tasks_state.kind = "dict"
    /\ CountState(disk.db.rows, "done") = 0
    /\ Len(disk.db.rows) > 0
    /\ sql_faults = {}
    /\ Len(speed_history) = 2
    /\ speed_history[1].d = 1
    /\ speed_history[2].d = 0
    /\ progress.source = "sqlite"

\* the artifacts that are missing, unparseable or of an unexpected shape
DamagedArtifacts ==
    { a \in {"run_state", "tasks_state", "oal_state", "flight_booking", "validation"} :
        disk[a].kind # "dict" }
    \cup (IF disk.logs # "ok" THEN {"logs"} ELSE {})

\* C6: with one artifact alone missing, unparseable or of an unexpected
\* shape (JSON backend), update_status returns a snapshot.
C6_NoArtifactAbortsPoll ==
    (Polled /\ ~disk.db.exists /\ Cardinality(DamagedArtifacts) <= 1) =>
        ~outcome.raised

\* the snapshot of the last poll
Snapshot == Polled /\ ~outcome.raised

\* C7: when the primary phase is at 100 percent and the secondary phase is
\* disabled or at 100 percent or completed, the overall percent is 100
\* whatever the weighted sum would be.
C7_CompletePhasesForce100 ==
    (/\ Snapshot
     /\ status.progress.lf = 1000
     /\ \/ status.oal_workers = 0
        \/ status.progress.oal >= 1000
        \/ status.progress.oal_status = "completed") =>
        status.progress.overall = 1000

\* both phases complete and no generated file: the weighted sum is 85
C7_Witness ==
    /\ Snapshot
    /\ status.progress.lf = 1000
    /\ status.oal_workers > 0
    /\ status.progress.oal_status = "completed"
    /\ status.progress.excel = 0
    /\ status.progress.overall = 1000


\* C31: when the overall percent is not forced to 100 it is, to the tenth,
\* 0.5 primary + 0.35 secondary + 0.15 artifact completeness with the
\* secondary phase enabled and 0.85 primary + 0.15 artifact completeness
\* without it, and lies in 0..100 when the three percentages do.
C31_OverallIsWeightedBlend ==
    LET p == status.progress
        forced == p.lf >= 1000 /\ (status.oal_workers = 0 \/ p.oal >= 1000)
        \* the blend in thousandths of a percent
        blend == IF status.oal_workers > 0
                 THEN 50 * p.lf + 35 * p.oal + 15 * p.excel
                 ELSE 85 * p.lf + 15 * p.excel
    IN  (Snapshot /\ ~forced) =>
            /\ Abs(100 * p.overall - blend) <= 50
            /\ ({p.lf, p.oal, p.excel} \subseteq 0 .. 1000) => p.overall \in 0 .. 1000

\* one of two tasks done, the secondary phase half way, no generated file:
\* 25 + 17.5 + 0
C31_Witness ==
    /\ Snapshot
    /\ status.oal_workers > 0
    /\ status.progress.lf = 500
    /\ status.progress.oal = 500
    /\ status.progress.excel = 0
    /\ status.progress.overall = 425


\* C32: the generated files counted are those stamped strictly after the
\* start of the run, none when the start is unknown, and artifact
\* completeness is min(100, counted / 4 * 100).
C32_CountsFilesAfterStart ==
    (Snapshot /\ ~RunCompleted(disk)) =>
        LET start == parse_iso_timestamp(disk.run_state.started_at)
            counted == Cardinality({ i \in DOMAIN disk.excel :
                                        start > 0 /\ disk.excel[i] > start })
        IN  /\ status.excel_count = counted
            /\ status.progress.excel
                  = IF counted >= EXPECTED_EXCEL THEN 1000
                    ELSE (counted * 1000) \div EXPECTED_EXCEL


\* C33: the worker map of a snapshot has an entry for each configured port
\* and for no other; on the SQL backend the entry of a port is "working",
\* with the task of the heartbeat and the route of that task, exactly when
\* some heartbeat row of a worker whose identity embeds the port reports
\* running with a bound task, and is idle without route and task otherwise.
C33_WorkerMapFollowsHeartbeats ==
    Snapshot =>
        LET ports == get_config_from_checkpoint(disk).ports
            hb == disk.db.heartbeats
            Running(p) == { i \in DOMAIN hb :
                              /\ WorkerPort(hb[i].worker_id) = p
                              /\ hb[i].status \in {"running", "RUNNING"}
                              /\ hb[i].task_id # 0 }
        IN  /\ DOMAIN status.workers = { ports[i] : i \in DOMAIN ports }
            /\ status.backend = "sqlite" =>
                  \A p \in DOMAIN status.workers :
                      IF Running(p) # {}
                      THEN /\ status.workers[p].status = "working"
                           /\ \E i \in Running(p) :
                                  status.workers[p].active_task = hb[i].task_id
                      ELSE status.workers[p] = IdleWorker


\* C34: no database connection is held across polls: after every poll, with
\* reads that returned and reads that raised, the number of open connections
\* is 0.
C34_NoConnectionHeldAcrossPolls ==
    open_connections = 0

\* a second poll on a database has ended, one of its reads having raised
C34_Witness ==
    /\ pc = "polled" /\ polls = 2
    /\ disk.db.exists /\ sql_faults # {}
    /\ Len(SqlReadsOf(disk, sql_faults)) >= 2
    /\ open_connections = 0

\* C12: the run status of a snapshot is one of RUNNING, COMPLETED, NO_DATA,
\* IDLE: RUNNING exactly when a task is running; otherwise COMPLETED exactly
\* when all tasks are done and there is one; otherwise NO_DATA exactly when
\* there is no task; otherwise IDLE.
C12_RunStatusDerivation ==
    Snapshot =>
        LET t == status.tasks
            all_done == t.done = t.total /\ t.total > 0
        IN  /\ status.status \in {"RUNNING", "COMPLETED", "NO_DATA", "IDLE"}
            /\ status.status = "RUNNING" <=> t.running > 0
            /\ t.running = 0 => (status.status = "COMPLETED" <=> all_done)
            /\ (t.running = 0 /\ ~all_done) => (status.status = "NO_DATA" <=> t.total = 0)

\* tasks are left, one failed, none is running: IDLE
C12_Witness ==
    /\ Snapshot
    /\ status.status = "IDLE"
    /\ status.tasks.total = 2
    /\ status.tasks.failed = 1
    /\ status.tasks.done = 1
    /\ status.tasks.running = 0

\* C15: no poll creates, modifies or deletes a file of the pointer location,
\* the output directory or the checkpoint directory, the database file
\* included.
C15_PollsWriteNoPipelineFile ==
    [][pointer' = pointer /\ runs' = runs /\ disk' = disk]_vars

\* C14: an iteration of monitor_loop in which update_status raised is
\* followed by a further iteration, and the loop goes on to its last
\* iteration however many of them fail.
C14_LoopSurvivesFailedPolls ==
    /\ \A n \in 1 .. MaxPolls - 1 :
           (polls = n /\ pc = "polled" /\ outcome.raised) ~> (polls = n + 1)
    /\ <>(polls = MaxPolls)

\* a second poll on a task map that parses to a list: it raised, as did the first
C14_Witness ==
    /\ polls = 2
    /\ pc = "polled"
    /\ outcome.raised
    /\ ~disk.db.exists
    /\ disk.tasks_state.kind = "list"

\* the fields of a snapshot, at every nesting level of the model
Shape(st) ==
    [ top |-> DOMAIN st,
      progress |-> DOMAIN st.progress,
      tasks |-> DOMAIN st.tasks,
      speed_metrics |-> DOMAIN st.speed_metrics,
      live_logs |-> DOMAIN st.live_logs,
      flight_booking_is_object |-> st.flight_booking_data # "list",
      validation_is_object |-> st.validation # "list" ]

\* C17: every snapshot has the fields of the snapshot of a run with all its
\* artifacts, at every nesting level, whatever artifacts are missing or
\* malformed.
C17_SnapshotFieldsAreFixed ==
    Snapshot => Shape(status) = Shape(StatusDict(BaseDisk, {}, NoMetrics))


\* the last poll resolved by a scan that selected no run-state file
NoCandidate ==
    /\ Polled
    /\ last_refresh.performed
    /\ last_refresh.scanned
    /\ active_run_state_file = NoPath

\* C20: a poll whose resolution found no valid pointer and no candidate uses
\* the checkpoints of the base directory, raises nothing, and ends with a
\* snapshot whose task counts are all 0 and whose status is NO_DATA.
C20_DefaultLocationGivesEmptySnapshot ==
    NoCandidate =>
        /\ ACTIVE_CHECKPOINT_DIR = CheckpointDirOf(BASE_OUTPUT_DIR)
        /\ ACTIVE_OUTPUT_DIR = BASE_OUTPUT_DIR
        /\ ~outcome.raised
        /\ status.tasks = [ total |-> 0, done |-> 0, running |-> 0,
                            pending |-> 0, failed |-> 0 ]
        /\ status.status = "NO_DATA"


\* the task map holding the tasks of a task table: task_id as the key, the
\* state in the spelling of the task map, the dates as a list
AsTaskMap(rows) ==
    [ kind |-> "dict",
      tasks |-> [ i \in DOMAIN rows |->
                    [ status |-> CASE rows[i].state = "pending" -> "PENDING"
                                   [] rows[i].state = "running" -> "RUNNING"
                                   [] rows[i].state = "done" -> "DONE"
                                   [] rows[i].state = "failed" -> "FAILED"
                                   [] OTHER -> rows[i].state,
                      route |-> rows[i].route,
                      assigned_worker |-> rows[i].worker_id,
                      chunk_idx |-> rows[i].chunk_idx,
                      dates |-> rows[i].dates.items ] ] ]

\* the snapshot was computed from a task table whose rows are pending,
\* running, done or failed
FromPlainTable ==
    /\ Snapshot
    /\ progress.source = "sqlite"
    /\ \A i \in DOMAIN disk.db.rows :
           disk.db.rows[i].state \in {"pending", "running", "done", "failed"}

\* C22: a snapshot computed from a task table of pending, running, done and
\* failed rows has the total, done, running, pending and failed counts, the
\* percent and the set of running tasks (id, route, chunk, worker, number of
\* dates) of the snapshot computed from the task map that holds the same
\* tasks; the backend labels differ.
C22_BackendsAgree ==
    FromPlainTable =>
        LET twin == StatusDict([disk EXCEPT !.db = NoDbFile,
                                            !.tasks_state = AsTaskMap(disk.db.rows)],
                               {}, status.speed_metrics)
            Listed(l) == { l[i] : i \in DOMAIN l }
        IN  /\ twin.tasks = status.tasks
            /\ twin.progress.lf = status.progress.lf
            /\ Listed(twin.running_tasks) = Listed(status.running_tasks)
            /\ Len(twin.running_tasks) = Len(status.running_tasks)
            /\ twin.backend = "json"
            /\ status.backend = "sqlite"

\* three tasks, the second and the third running: the task table lists them
\* latest update first, the task map by id
C22_Witness ==
    /\ FromPlainTable
    /\ status.tasks.total = 3
    /\ status.tasks.done = 1
    /\ Len(status.running_tasks) = 2
    /\ status.running_tasks[1].id = 3
    /\ status.running_tasks[1].dates_count = 2
    /\ status.running_tasks[2].id = 2

----------------------------------------------------------------------------
(* Specification of the threads: the main thread reads the configuration,  *)
(* starts the monitor thread and reads the configuration again in          *)
(* run_server, while monitor_loop polls and the clock advances.            *)

ThreadsInit ==
    /\ now = StartTime
    /\ MetricsInit
    /\ SelectIdle
    /\ disk \in LoopDisks
    /\ pointer \in { [kind |-> "dict", dir |-> HomeDir], [kind |-> "absent", dir |-> NoDir] }
    /\ runs = [ x \in {HomeDir} |-> RunDirView(disk) ]
    /\ ResolverInit
    /\ PollIdle
    /\ EtaIdle
    /\ HistoryIdle
    /\ main_pc = "config"
    /\ foreign_write = FALSE

\* get_config_from_checkpoint() called by the main thread: load_run_state
\* calls refresh_active_paths(); an exception ends the main thread
MainGetConfig(files, next_pc) ==
    /\ \E r \in { refresh_active_paths(FALSE, ResolverState, pointer, runs, files, now) } :
           /\ last_active_scan_ts' = r.rs.last_active_scan_ts
           /\ active_run_state_file' = r.rs.active_run_state_file
           /\ ACTIVE_OUTPUT_DIR' = r.rs.ACTIVE_OUTPUT_DIR
           /\ ACTIVE_CHECKPOINT_DIR' = r.rs.ACTIVE_CHECKPOINT_DIR
           /\ last_refresh' = r.call
           /\ pointer_resolved' = (pointer_resolved \/ ViaPointer(r, pointer, runs))
           /\ pointer_streak' = StreakAfterCall(pointer_streak, r, pointer, runs)
           /\ foreign_write' = (foreign_write \/ (main_pc = "serve" /\ r.call.performed))
           /\ main_pc' =
                  IF get_config_from_checkpoint(
                         ArtifactsAt(r.rs.ACTIVE_CHECKPOINT_DIR, disk)).raised
                  THEN "crashed" ELSE next_pc
    /\ UNCHANGED <<etaVars, now, metricVars, selectVars, fsVars, disk, pollVars>>

\* __main__, lines 1146-1147
MainConfig(files) ==
    /\ main_pc = "config"
    /\ MainGetConfig(files, "start")

\* __main__, lines 1157-1158: monitor_thread.start()
StartMonitor ==
    /\ main_pc = "start"
    /\ main_pc' = "serve"
    /\ UNCHANGED <<etaVars, historyVars, foreign_write, now, metricVars, selectVars,
                   fsVars, resolverVars, disk, pollVars>>

\* run_server, line 1133, with the monitor thread running
ServerConfig(files) ==
    /\ main_pc = "serve"
    /\ MainGetConfig(files, "serving")

\* a step of the monitor thread, which lives as long as the process
MonitorStep ==
    /\ main_pc \in {"serve", "serving"}
    /\ PollNext

ThreadsNext ==
    \/ \E files \in Orderings(GlobRunStateFiles(runs)) : MainConfig(files)
    \/ StartMonitor
    \/ \E files \in Orderings(GlobRunStateFiles(runs)) : ServerConfig(files)
    \/ MonitorStep
    \/ Tick

SpecThreads == ThreadsInit /\ [][ThreadsNext]_vars

\* C16: while monitor_loop is running no thread other than the monitor
\* thread writes the resolver's cache timestamp, the active-path globals or
\* the last-selected candidate (nor the metrics windows).
C16_MonitorIsOnlyWriter ==
    ~foreign_write

----------------------------------------------------------------------------
(* Specification of the duration formatting applied to arbitrary durations *)

FormatInit ==
    /\ now = 0
    /\ MetricsInit
    /\ SelectIdle
    /\ EmptyDisk
    /\ ResolverInit
    /\ PollIdle
    /\ HistoryIdle
    /\ ThreadIdle
    /\ minutes \in 0 .. MaxDuration
    /\ formatted = ""
    /\ eta_args = NoEtaArgs
    /\ eta = NoEta

FormatDuration ==
    /\ formatted = ""
    /\ formatted' = format_duration(minutes)
    /\ UNCHANGED <<now, metricVars, selectVars, fsVars, resolverVars, disk, pollVars,
                   minutes, eta_args, eta, historyVars, threadVars>>

SpecFormat == FormatInit /\ [][FormatDuration]_vars

\* the arguments update_status may hand to calculate_eta: task counts, a
\* throughput in hundredths (negative when the done count fell), the
\* secondary-phase state as loaded, the configured worker count
EtaArgs ==
    { [ total |-> t, done |-> d, speed_per_minute |-> sp, oal_state |-> os,
        oal_workers |-> w ] :
        t \in 0 .. MaxEtaTasks, d \in 0 .. MaxEtaTasks,
        sp \in {-50, 0, 7, 100, 3000},
        os \in {MissingOalState}
                \cup { [ kind |-> "dict", percent |-> 0, status |-> "running",
                         total_operations |-> to, completed_operations |-> co,
                         routes_total_per_pass |-> rt ] :
                       to \in {0, 4, 400}, co \in {0, 1, 4}, rt \in {0, 2} },
        w \in {0, 1, 2} }

EtaInit ==
    /\ now = 0
    /\ MetricsInit
    /\ SelectIdle
    /\ EmptyDisk
    /\ ResolverInit
    /\ PollIdle
    /\ HistoryIdle
    /\ ThreadIdle
    /\ minutes = 0
    /\ formatted = ""
    /\ eta_args \in { a \in EtaArgs : a.done <= a.total }
    /\ eta = NoEta

\* formatted records that the call was made
CalculateEta ==
    /\ formatted = ""
    /\ eta' = calculate_eta([total |-> eta_args.total, done |-> eta_args.done],
                            eta_args.speed_per_minute, eta_args.oal_state,
                            eta_args.oal_workers)
    /\ formatted' = "called"
    /\ UNCHANGED <<now, metricVars, selectVars, fsVars, resolverVars, disk, pollVars,
                   minutes, eta_args, historyVars, threadVars>>

SpecEta == EtaInit /\ [][CalculateEta]_vars

----------------------------------------------------------------------------
(* Properties of the duration formatting *)

\* C11: a duration below one minute is formatted "< 1 min", one below an
\* hour as its whole minutes and " min", a longer one as its hours and its
\* remaining whole minutes, the minutes left out when they are zero; 0.5,
\* 45, 90 and 120 minutes give "< 1 min", "45 min", "1h 30m" and "2h".
C11_DurationFormat ==
    formatted # "" =>
        /\ minutes < 10 => formatted = "< 1 min"
        /\ \A w \in 1 .. 59 :
               (10 * w <= minutes /\ minutes < 10 * w + 10) =>
                   formatted = ToString(w) \o " min"
        /\ \A h \in 1 .. (MaxDuration \div 600) + 1 :
               /\ (600 * h <= minutes /\ minutes < 600 * h + 10) =>
                      formatted = ToString(h) \o "h"
               /\ \A r \in 1 .. 59 :
                      (600 * h + 10 * r <= minutes /\ minutes < 600 * h + 10 * r + 10) =>
                          formatted = ToString(h) \o "h " \o ToString(r) \o "m"
        /\ minutes = 5 => formatted = "< 1 min"
        /\ minutes = 450 => formatted = "45 min"
        /\ minutes = 900 => formatted = "1h 30m"
        /\ minutes = 1200 => formatted = "2h"

\* two hours and a half minute: the minutes component is left out
C11_Witness ==
    /\ minutes = 1205
    /\ formatted = "2h"

----------------------------------------------------------------------------
(* Specification of a change of the active run directory: the polling loop *)
(* runs while the pipeline rewrites or removes the pointer file, the clock *)
(* advances and run_server reads the configuration on the main thread.     *)

\* a second run directory, just created: checkpoints without any artifact
OtherDir == <<3>>

\* the artifacts of the first run: tasks done and failed, in either backend
SwitchDisks ==
    { [BaseDisk EXCEPT !.tasks_state = TaskMap(sts)] :
        sts \in { <<"DONE", "FAILED">>, <<"DONE", "DONE", "RUNNING">> } }
    \cup { [BaseDisk EXCEPT !.db = TaskTable(<<"done", "failed">>)] }

\* what the pipeline leaves in the pointer file
SwitchPointers ==
    { [kind |-> "dict", dir |-> HomeDir], [kind |-> "dict", dir |-> OtherDir],
      [kind |-> "absent", dir |-> NoDir] }

SwitchInit ==
    /\ now = StartTime
    /\ MetricsInit
    /\ SelectIdle
    /\ disk \in SwitchDisks
    /\ pointer = [kind |-> "dict", dir |-> HomeDir]
    /\ runs = [ x \in {HomeDir, OtherDir} |->
                 IF x = HomeDir THEN RunDirView(disk)
                 ELSE [ state |-> "empty", file |-> NoRunStateFile ] ]
    /\ ResolverInit
    /\ PollIdle
    /\ EtaIdle
    /\ HistoryIdle
    /\ main_pc = "serve"
    /\ foreign_write = FALSE

SwitchNext ==
    \/ Poll({}, FALSE)
    \/ Sleep
    \/ \E p \in SwitchPointers : WritePointer(p)
    \/ Tick
    \/ \E files \in Orderings(GlobRunStateFiles(runs)) : ServerConfig(files)

SpecSwitch == SwitchInit /\ [][SwitchNext]_vars

\* a poll that returned a snapshot and in which the active checkpoint
\* directory changed, after an earlier poll
SwitchingPoll ==
    /\ pc = "sleep" /\ pc' = "polled"
    /\ polls >= 1
    /\ ~outcome'.raised
    /\ ACTIVE_CHECKPOINT_DIR' # ACTIVE_CHECKPOINT_DIR

\* C35: the windows and the remembered failed counter survive a switch of
\* the active run directory: in the first poll after the switch the samples
\* of the previous run that are still inside the window are kept in front of
\* the new sample, the speed is computed over them, and the error event is
\* the new failed count minus the failed count remembered from the previous
\* run.
C35_WindowsSurviveSwitch ==
    [][ SwitchingPoll =>
          LET kept == PruneSpeedHistory(speed_history, now)
              done == status'.tasks.done
              failed == status'.tasks.failed
          IN  /\ speed_history' = Append(kept, [t |-> now, d |-> done])
              /\ last_error_count' = failed
              /\ error_rate_history' =
                     PruneErrorHistory(
                         IF failed # last_error_count
                         THEN Append(error_rate_history,
                                     [t |-> now, e |-> failed - last_error_count])
                         ELSE error_rate_history, now)
              /\ status'.speed_metrics
                     = SpeedMetricsDict(speed_history', error_rate_history')
      ]_vars

\* the second poll read the new, empty run directory: the sample of the
\* first run is still the oldest of the window
C35_Witness ==
    /\ pc = "polled" /\ polls = 2
    /\ ~outcome.raised
    /\ ACTIVE_OUTPUT_DIR = OtherDir
    /\ Len(speed_history) = 2
    /\ speed_history[1].d = 2
    /\ speed_history[2].d = 0

\* C36: every figure of the speed metrics of a snapshot is non-negative,
\* also after polls across a switch of the active run directory in which
\* the done or the failed counter decreases.
C36_SpeedMetricsNonNegative ==
    (pc = "polled" /\ ~outcome.raised) =>
        /\ status.speed_metrics.speed_per_minute >= 0
        /\ status.speed_metrics.speed_per_hour >= 0
        /\ status.speed_metrics.recent_errors >= 0
        /\ status.speed_metrics.error_rate >= 0

\* the polling loop of SpecSwitch keeps running
SpecSwitchFair ==
    /\ SwitchInit
    /\ [][SwitchNext]_vars
    /\ WF_<<pc, polls>>(PollStep)
    /\ WF_vars(Sleep)

\* the output directory the disk resolves to: the directory the pointer file
\* names (both run directories are valid), and without a pointer file the
\* directory of the only run-state file below the base directory
ExpectedLocation ==
    IF pointer.kind = "dict" THEN pointer.dir ELSE HomeDir

\* C40: the location of the polling loop follows the disk: a poll that starts
\* 2 seconds or more after the last performed resolution ends with the
\* location the disk resolves to, and once the pointer file stays as it is
\* a poll ends with that location, as long as two iterations are left.
C40_LocationFollowsPointer ==
    /\ [][ ( /\ pc = "sleep" /\ pc' = "polled"
             /\ now - last_active_scan_ts >= _ACTIVE_SCAN_INTERVAL_SECONDS )
           => ACTIVE_OUTPUT_DIR' = ExpectedLocation' ]_vars
    /\ \A p \in SwitchPointers :
           (pointer = p /\ polls <= MaxPolls - 2)
               ~> (pointer # p \/ (pc = "polled" /\ ACTIVE_OUTPUT_DIR = ExpectedLocation))

\* the second poll ended with the run directory the pointer file was
\* rewritten to after the first resolution
C40_Witness ==
    /\ pc = "polled" /\ polls = 2
    /\ last_refresh.performed
    /\ pointer = [kind |-> "dict", dir |-> OtherDir]
    /\ ACTIVE_OUTPUT_DIR = OtherDir
    /\ Len(speed_history) = 2 /\ speed_history[1].d > 0

----------------------------------------------------------------------------
(* Specification of the summary of large runs: update_status builds the    *)
(* snapshot from the counts of a task collection of any size               *)

\* sizes of task collections, below and around 2000 tasks
SummaryTotals == {1, 2, 200, 1999, 2000, 2001}

\* what calculate_progress_from_tasks returns for a task map of t tasks of
\* which dn are DONE, r RUNNING, f FAILED and the others PENDING
CountedProgress ==
    { [ raised |-> FALSE, source |-> "json",
        total |-> c[1], done |-> c[2], running |-> c[3],
        pending |-> c[1] - c[2] - c[3] - c[4], failed |-> c[4],
        percent |-> ProgressPercent(c[2], c[1]), tasks_detail |-> <<>> ] :
        c \in { x \in SummaryTotals \X (0 .. 2001) \X {0, 1} \X {0, 1} :
                  /\ x[2] \in {0, x[1] - 1, x[1]}
                  /\ x[2] + x[3] + x[4] <= x[1] } }

\* runs without and with the secondary phase, that phase finished or not begun
SummaryDisks ==
    { [BaseDisk EXCEPT !.run_state = RunState(w, ""), !.oal_state = oal] :
        w \in {0, 2}, oal \in {MissingOalState, OalState(100, "completed")} }

SummaryInit ==
    /\ now = StartTime
    /\ MetricsInit
    /\ SelectIdle
    /\ disk \in SummaryDisks
    /\ pointer = [kind |-> "dict", dir |-> HomeDir]
    /\ runs = [ x \in {HomeDir} |-> RunDirView(disk) ]
    /\ ResolverInit
    /\ pc = "sleep"
    /\ polls = 0
    /\ sql_faults = {}
    /\ progress \in CountedProgress
    /\ outcome = NoOutcome
    /\ status = NoStatus
    /\ open_connections = 0
    /\ read_dirs = {}
    /\ EtaIdle
    /\ HistoryIdle
    /\ ThreadIdle

\* update_status from line 824 on, given the progress summary
Summarise ==
    /\ pc = "sleep"
    /\ polls = 0
    /\ \E m \in { calculate_speed_metrics(speed_history, last_error_count,
                      error_rate_history, progress.done, progress.failed, now) } :
           /\ speed_history' = m.speed_history
           /\ last_error_count' = m.last_error_count
           /\ error_rate_history' = m.error_rate_history
           /\ speed_metrics' = m.result
           /\ calls' = calls + 1
           /\ status' = StatusDictOf(disk, progress, m.result)
    /\ pc' = "polled"
    /\ polls' = 1
    /\ last_refresh' = NoCall
    /\ UNCHANGED <<now, selectVars, fsVars, last_active_scan_ts, active_run_state_file,
                   ACTIVE_OUTPUT_DIR, ACTIVE_CHECKPOINT_DIR, disk, sql_faults,
                   progress, outcome, open_connections, read_dirs, etaVars,
                   historyVars,
                   threadVars>>

SpecSummary == SummaryInit /\ [][Summarise]_vars

\* C37: the primary percent of a summary is 100 only if every task is done
\* and there is one; so a snapshot whose overall percent was forced to 100
\* has the status COMPLETED and no pending, running or failed task.
C37_FullPercentMeansAllDone ==
    Snapshot =>
        /\ status.progress.lf = 1000 =>
               status.tasks.done = status.tasks.total /\ status.tasks.total > 0
        /\ PhasesComplete(status.progress.lf, status.oal_workers,
                          status.progress.oal \div 10) =>
               /\ status.status = "COMPLETED"
               /\ status.tasks.pending = 0
               /\ status.tasks.running = 0
               /\ status.tasks.failed = 0

\* C38: the backend label of a snapshot names the backend of its sections:
\* the label is "sqlite" exactly when the task counts were read from the
\* database, as the worker map and the per-route breakdown are whenever
\* the database file is there; also in a poll in which a database read
\* failed.
C38_BackendLabelNamesBackend ==
    Snapshot =>
        /\ (status.backend = "sqlite") = (progress.source = "sqlite")
        /\ (status.backend = "sqlite") = sqlite_checkpoint_available(disk)

----------------------------------------------------------------------------
(* Specification of the reads of one poll: update_status calls its loaders *)
(* one after the other, each of which calls refresh_active_paths() first,  *)
(* while the clock advances and the pipeline rewrites the pointer file.    *)

\* the reads of update_status in the order of lines 822-840
ReadOrder == <<"config", "progress", "workers", "routes", "excel", "run_state",
               "oal_state">>

ReadsInit ==
    /\ now = StartTime
    /\ MetricsInit
    /\ SelectIdle
    /\ disk = BaseDisk
    /\ pointer = [kind |-> "dict", dir |-> HomeDir]
    /\ runs = [ x \in {HomeDir, OtherDir} |->
                 IF x = HomeDir THEN RunDirView(disk)
                 ELSE [ state |-> "empty", file |-> NoRunStateFile ] ]
    /\ ResolverInit
    /\ PollIdle
    /\ EtaIdle
    /\ HistoryIdle
    /\ ThreadIdle

\* the resolver's globals after a refresh_active_paths() of the monitor thread
Resolved(r) ==
    /\ last_active_scan_ts' = r.rs.last_active_scan_ts
    /\ active_run_state_file' = r.rs.active_run_state_file
    /\ ACTIVE_OUTPUT_DIR' = r.rs.ACTIVE_OUTPUT_DIR
    /\ ACTIVE_CHECKPOINT_DIR' = r.rs.ACTIVE_CHECKPOINT_DIR
    /\ last_refresh' = r.call
    /\ pointer_resolved' = (pointer_resolved \/ ViaPointer(r, pointer, runs))
    /\ pointer_streak' = StreakAfterCall(pointer_streak, r, pointer, runs)

\* read number i of a poll: refresh_active_paths() and the read of a file
\* below the active directories; the first read follows the refresh of line
\* 821, the last is followed by the return of update_status
Read(i, files) ==
    /\ pc = (IF i = 1 THEN "sleep" ELSE ReadOrder[i])
    /\ polls < MaxPolls
    /\ \E r \in { refresh_active_paths(FALSE, ResolverState, pointer, runs, files, now) } :
           /\ Resolved(r)
           /\ read_dirs' = (IF i = 1 THEN {} ELSE read_dirs)
                               \cup {r.rs.ACTIVE_CHECKPOINT_DIR}
    /\ pc' = (IF i = Len(ReadOrder) THEN "polled" ELSE ReadOrder[i + 1])
    /\ polls' = (IF i = Len(ReadOrder) THEN polls + 1 ELSE polls)
    /\ UNCHANGED <<now, metricVars, selectVars, fsVars, disk, sql_faults, progress,
                   outcome, status, open_connections, etaVars, threadVars>>

ReadsNext ==
    \/ \E i \in DOMAIN ReadOrder, files \in Orderings(GlobRunStateFiles(runs)) :
           Read(i, files)
    \/ Sleep
    \/ Tick
    \/ \E p \in SwitchPointers : WritePointer(p)

SpecReads == ReadsInit /\ [][ReadsNext]_vars

\* C39: within one poll every artifact is read below one and the same
\* checkpoint directory: the active directories do not change between the
\* first and the last read of update_status.
C39_OneLocationPerPoll ==
    Cardinality(read_dirs) <= 1

====
